---------------------------- MODULE Spec2Model ----------------------------
(***************************************************************************)
(* A model of the single-header ECS library (ecs.hpp): the World's         *)
(* identity table with its intrusive free list, the per-component sparse   *)
(* set pools, the deferred-deallocation buffer and the View cursor.        *)
(*                                                                         *)
(* Memory is modelled explicitly.  The heap maps the addresses of the      *)
(* allocated buffers to their cells; new[] adds an address and delete[]    *)
(* takes it away.  Pointers held by the World, by a pool or by a view are  *)
(* heap addresses, so aliasing between an old and a new buffer is what the *)
(* code makes it.  The allocator is taken to return, for an array of a     *)
(* given element kind, owner and length, the address named by those three: *)
(* the library never holds two such arrays at once (every reallocation     *)
(* changes the length), so distinct allocated buffers have distinct        *)
(* addresses, and an address may be handed out again once it is freed.     *)
(*                                                                         *)
(* Cell i of a C++ array is cells[i + 1] of the buffer.                    *)
(*                                                                         *)
(* 32-bit unsigned fields are written as the two's-complement integer      *)
(* with the same bit pattern (UINT32_MAX is -1), because 2^32 - 1 lies     *)
(* outside the range of the model checker's integers.  A 64-bit handle is  *)
(* the pair of its two 32-bit halves.                                      *)
(***************************************************************************)
EXTENDS Integers, Sequences, FiniteSets, TLC

VARIABLES
    heap,       \* the free store: address -> cells of the allocated buffer
    world,      \* the fields of the World object
    type_ids,   \* component types in order of first reference (static ids)
    views,      \* the View objects held by the client
    failure,    \* "none", or the assertion / fault that ended the process
    issued,     \* handles new_entity() has returned to the client
    gone,       \* handles the client has destroyed
    freed,      \* slots destroyed and not handed out again, oldest first
    comp,       \* client's record: (handle, type) -> payload last written
    hook_log,   \* what the hooks run by the last call observed
    adds,       \* components the client has attached so far
    pc,         \* position of the scripted client program (SpecLoop)
    loop        \* the scripted client's locals

vars == <<heap, world, type_ids, views, failure, issued, gone, freed, comp, hook_log, adds,
          pc, loop>>

-----------------------------------------------------------------------------
(* Bounds of the model. *)

\* Spec: slots the client may create, entities it may destroy and components
\* it may attach in one run
MaxEntities == 2
MaxDestroys == 1
MaxAdds == 2
\* SpecIdent: the same three
MaxIdEntities == 2
MaxIdDestroys == 3
MaxIdAdds == 1
\* SpecView: slots the client may create and components it may attach
MaxViewEntities == 3
MaxViewAdds == 4
\* SpecVer: slots the client may create (the identity table grows at 9 and at
\* 17) and entities it may destroy
MaxVerEntities == 17
MaxVerDestroys == 2
\* SpecHook: slots, destroyed entities and attached components
MaxHookEntities == 1
MaxHookDestroys == 1
MaxHookAdds == 2
\* SpecCur: slots the client may create and components it may attach
MaxCurEntities == 3
MaxCurAdds == 4
\* SpecNest: slots the client may create and components it may attach
MaxNestEntities == 2
MaxNestAdds == 3
\* largest n of the scripted loop (matching entities before the view opens)
MaxLoopN == 32
\* SpecFull: slots the client may create and components it may attach
MaxFullEntities == 3
MaxFullAdds == 3
\* SpecAny: matching entities before the view opens, entities the bodies may
\* destroy, and components that live entities may have lost
MaxAnyN == 3
MaxAnyDestroys == 2
MaxAnyRemoves == 1
\* SpecRef: largest n of the loop, and payloads that may differ from the value
\* given at add
MaxRefN == 8
MaxRefWrites == 1

(* Program constants. *)

\* View::max
ViewMax == 16
\* World::max_delete_buffer
max_delete_buffer == 64
\* first capacity of every doubling array (entities, pools, data, dense)
InitialCapacity == 8
\* collect_garbage rounds the shrunk capacity up to a multiple of this
ShrinkGranule == 8
\* null_entity_id = UINT32_MAX (all ones)
null_entity_id == -1
\* the id of a default-constructed Component_Pool, UINT64_MAX (all ones)
null_pool_id == -1

\* component types the client instantiates the templates with
Types == {"A", "B"}

\* sizeof(T)
SizeOf(T) == IF T = "A" THEN 1 ELSE 2

\* the payloads the client writes: element_size bytes each
Payloads(T) == IF T = "A" THEN {<<1>>, <<2>>} ELSE {<<1, 2>>, <<2, 1>>}

\* the payload the scripted clients write
Fixed(T) == CHOOSE c \in Payloads(T) : c[1] = 1

\* an indeterminate byte of a fresh new u8[]
GarbageByte == 0

-----------------------------------------------------------------------------
(* Handles. *)

make_handle(id, v) == [id |-> id, version |-> v]

get_entity_id(e) == e.id

get_entity_version(e) == e.version

null_handle == make_handle(null_entity_id, -1)

\* an indeterminate element of a fresh new Entity_Handle[]
GarbageHandle == make_handle(-2, -2)

\* a < b on 32-bit unsigned values in two's-complement writing
ULess(a, b) ==
    \/ a >= 0 /\ b < 0
    \/ a >= 0 /\ b >= 0 /\ a < b
    \/ a < 0 /\ b < 0 /\ a < b

\* a successor that stops at UINT32_MAX instead of wrapping to 0
VersionSucc_NoWrap(v) ==
    IF v = -1 THEN -1 ELSE IF v = 2147483647 THEN (-2147483647) - 1 ELSE v + 1

\* (Entity_Version)v + 1
VersionSucc(v) == IF v = 2147483647 THEN (-2147483647) - 1 ELSE v + 1

-----------------------------------------------------------------------------
(* The free store. *)

nullptr == <<>>

\* the address new[] returns for `size` elements of `kind` asked for by `owner`
\* (0: the World, i + 1: the pool at index i of the pool array)
Addr(kind, owner, size) == <<kind, owner, size>>

Fill(n, x) == [i \in 1..n |-> x]

\* new kind[Len(cells)], at address a
Alloc(s, a, cells) ==
    [s EXCEPT !.heap = [x \in DOMAIN @ \cup {a} |-> IF x = a THEN cells ELSE @[x]]]

\* delete[] a
Free(s, a) ==
    IF a = nullptr THEN s
    ELSE IF a \notin DOMAIN s.heap THEN [s EXCEPT !.fail = "double free"]
    ELSE [s EXCEPT !.heap = [x \in DOMAIN @ \ {a} |-> @[x]]]

Cells(s, a) == s.heap[a]

\* a[i]
At(s, a, i) == s.heap[a][i + 1]

\* a[i] = x
Store(s, a, i, x) == [s EXCEPT !.heap[a][i + 1] = x]

\* mem_copy(dst, src, count)
mem_copy(s, dst, src, count) ==
    [s EXCEPT !.heap[dst] =
        [i \in 1..Len(@) |-> IF i <= count THEN s.heap[src][i] ELSE @[i]]]

Fail(s, what) == IF s.fail = "none" THEN [s EXCEPT !.fail = what] ELSE s

\* "x; F(x)": the value of x is computed once and handed to F
Bind(x, F(_)) == CHOOSE y \in {F(v) : v \in {x}} : TRUE

-----------------------------------------------------------------------------
(* The deferred-deallocation buffer. *)

\* push_deletion without the assertion on the buffer's size
push_deletion_Unchecked(s, type, ptr) ==
    IF s.fail # "none" THEN s
    ELSE [s EXCEPT !.w.delete_buffer = Append(@, [type |-> type, ptr |-> ptr])]

\* World::push_deletion
push_deletion(s, type, ptr) ==
    IF s.fail # "none" THEN s
    ELSE IF ~(Len(s.w.delete_buffer) < max_delete_buffer)
    THEN Fail(s, "Deletion buffer too small.")
    ELSE [s EXCEPT !.w.delete_buffer = Append(@, [type |-> type, ptr |-> ptr])]

\* World::commit_deletions, lines 376-397: delete[] every buffered pointer
FreeAll(s, entries) ==
    LET ptrs == {entries[i].ptr : i \in DOMAIN entries} \ {nullptr}
        twice == \E i \in DOMAIN entries, j \in DOMAIN entries :
                    i # j /\ entries[i].ptr = entries[j].ptr /\ entries[i].ptr # nullptr
    IN IF twice \/ ~(ptrs \subseteq DOMAIN s.heap) THEN [s EXCEPT !.fail = "double free"]
       ELSE [s EXCEPT !.heap = [x \in DOMAIN @ \ ptrs |-> @[x]]]

\* World::commit_deletions
commit_deletions(s) ==
    IF s.fail # "none" THEN s
    ELSE [FreeAll(s, s.w.delete_buffer) EXCEPT !.w.delete_buffer = <<>>]

\* the pattern "if (iteration_depth <= 0) delete[] p; else push_deletion(type, p);"
Release(s, type, ptr) ==
    IF s.w.iteration_depth <= 0 THEN Free(s, ptr) ELSE push_deletion(s, type, ptr)

-----------------------------------------------------------------------------
(* The identity table. *)

GrowCapacity(c) == IF c < InitialCapacity THEN InitialCapacity ELSE c * 2

\* growth of the identity table that copies one handle too few
GrowEntities_ShortCopy(s) ==
    LET new_capacity == GrowCapacity(s.w.entity_capacity)
        new_alloc == Addr("ENTITY_HANDLE", 0, new_capacity)
    IN Bind(Alloc(s, new_alloc, Fill(new_capacity, GarbageHandle)), LAMBDA a :
       Bind(IF s.w.entity_capacity > 0
            THEN mem_copy(a, new_alloc, s.w.entities, s.w.entity_capacity - 1)
            ELSE a, LAMBDA c :
       [Free(c, s.w.entities) EXCEPT !.w.entity_capacity = new_capacity,
                                     !.w.entities = new_alloc]))

\* World::generate_entity, lines 288-297: make room in the identity table
GrowEntities(s) ==
    LET new_capacity == GrowCapacity(s.w.entity_capacity)
        new_alloc == Addr("ENTITY_HANDLE", 0, new_capacity)
    IN Bind(Alloc(s, new_alloc, Fill(new_capacity, GarbageHandle)), LAMBDA a :
       Bind(IF s.w.entity_capacity > 0
            THEN mem_copy(a, new_alloc, s.w.entities, s.w.entity_capacity)
            ELSE a, LAMBDA c :
       [Free(c, s.w.entities) EXCEPT !.w.entity_capacity = new_capacity,
                                     !.w.entities = new_alloc]))

\* World::generate_entity
generate_entity(s) ==
    Bind(IF s.w.entity_count >= s.w.entity_capacity THEN GrowEntities(s) ELSE s,
         LAMBDA s1 :
         LET e == make_handle(s1.w.entity_count, 0)
         IN [s |-> [Store(s1, s1.w.entities, s1.w.entity_count, e)
                       EXCEPT !.w.entity_count = @ + 1],
             e |-> e])

\* recycle_entity that hands the handle out without writing it back to the table
recycle_entity_NoStore(s) ==
    LET cur_id == s.w.avail_id
        cur_version == get_entity_version(At(s, s.w.entities, cur_id))
        next_avail == get_entity_id(At(s, s.w.entities, cur_id))
    IN [s |-> [s EXCEPT !.w.avail_id = next_avail],
        e |-> make_handle(cur_id, cur_version)]

\* World::recycle_entity
recycle_entity(s) ==
    LET cur_id == s.w.avail_id
        cur_version == get_entity_version(At(s, s.w.entities, cur_id))
        next_avail == get_entity_id(At(s, s.w.entities, cur_id))
        recycled == make_handle(cur_id, cur_version)
    IN [s |-> [Store(s, s.w.entities, cur_id, recycled) EXCEPT !.w.avail_id = next_avail],
        e |-> recycled]

\* release_entity that leaves the version of the freed slot as it was
release_entity_KeepVersion(s, e, desired) ==
    LET id == get_entity_id(e)
    IN [Store(s, s.w.entities, id, make_handle(s.w.avail_id, get_entity_version(e)))
           EXCEPT !.w.avail_id = id]

\* release_entity that does not link the freed slot to the previous head
release_entity_NoLink(s, e, desired) ==
    LET id == get_entity_id(e)
    IN [Store(s, s.w.entities, id, make_handle(null_entity_id, desired))
           EXCEPT !.w.avail_id = id]

\* World::release_entity
release_entity(s, e, desired) ==
    LET id == get_entity_id(e)
    IN [Store(s, s.w.entities, id, make_handle(s.w.avail_id, desired))
           EXCEPT !.w.avail_id = id]

\* new_entity that counts only the entities of fresh slots
new_entity_NoCount(s) ==
    IF s.w.avail_id = null_entity_id
    THEN generate_entity([s EXCEPT !.w.alive_count = @ + 1])
    ELSE recycle_entity(s)

\* new_entity that always takes a fresh slot
new_entity_AlwaysFresh(s) == generate_entity([s EXCEPT !.w.alive_count = @ + 1])

\* World::new_entity
new_entity(s) ==
    Bind([s EXCEPT !.w.alive_count = @ + 1], LAMBDA s1 :
         IF s1.w.avail_id = null_entity_id THEN generate_entity(s1) ELSE recycle_entity(s1))

\* World::count
count(s) == s.w.alive_count

\* Entity(h, world) and Entity::null()
Entity(h) == [handle |-> h, world |-> TRUE]

NullEntity == [handle |-> null_handle, world |-> FALSE]

\* World::at
World_at(s, i) == Entity(At(s, s.w.entities, i))

\* Entity::valid
Entity_valid(s, e) ==
    LET id == get_entity_id(e.handle)
    IN /\ e.world
       /\ ULess(id, s.w.entity_count)
       /\ At(s, s.w.entities, id) = e.handle

-----------------------------------------------------------------------------
(* Component type ids and the pool array. *)

RECURSIVE IndexOf(_, _, _)
IndexOf(seq, x, i) ==
    IF i > Len(seq) THEN 0 ELSE IF seq[i] = x THEN i ELSE IndexOf(seq, x, i + 1)

\* internal::get_component_id<T>: the static id, drawn from the counter at first use
get_component_id(s, T) ==
    IF IndexOf(s.ids, T, 1) # 0
    THEN [s |-> s, id |-> IndexOf(s.ids, T, 1) - 1]
    ELSE [s |-> [s EXCEPT !.ids = Append(@, T)], id |-> Len(s.ids)]

\* the type a static id was given to
TypeOfId(s, id) == s.ids[id + 1]

\* a default-constructed Component_Pool
NewPool ==
    [sparse |-> nullptr, sparse_capacity |-> 0,
     dense |-> nullptr, dense_count |-> 0, dense_capacity |-> 0,
     data |-> nullptr, count |-> 0, capacity |-> 0,
     element_size |-> 0, id |-> null_pool_id,
     on_create |-> "none", on_destroy |-> "none"]

\* Component_Pool::init
Pool_init(p, type_id, el_size) == [p EXCEPT !.element_size = el_size, !.id = type_id]

\* a Component_Pool* : element i of the pool array at address base
PoolPtr(base, i) == [base |-> base, i |-> i]

NullPool == PoolPtr(nullptr, 0)

\* *ptr
Pool(s, ptr) == At(s, ptr.base, ptr.i)

RECURSIVE FindPool(_, _, _, _)
\* the scan "for (i < pool_count) if (pools[i].id == id)": the index, or -1
FindPool(s, id, i, n) ==
    IF i >= n THEN -1
    ELSE IF At(s, s.w.pools, i).id = id THEN i
    ELSE FindPool(s, id, i + 1, n)

\* World::get_pool<T>, lines 265-280: make room in the pool array
GrowPools(s) ==
    LET new_capacity == GrowCapacity(s.w.pool_capacity)
        new_alloc == Addr("COMPONENT_POOL", 0, new_capacity)
    IN Bind(Alloc(s, new_alloc, Fill(new_capacity, NewPool)), LAMBDA a :
       Bind(IF s.w.pools # nullptr
            THEN mem_copy(a, new_alloc, s.w.pools, s.w.pool_capacity)
            ELSE a, LAMBDA c :
       Bind(IF s.w.pools # nullptr THEN Release(c, "COMPONENT_POOL", s.w.pools) ELSE c,
            LAMBDA d :
       IF d.fail # "none" THEN d
       ELSE [d EXCEPT !.w.pools = new_alloc, !.w.pool_capacity = new_capacity])))

\* World::get_pool<T>, lines 282-284: append and init the new pool
AppendPool(s, id, T) ==
    LET p == PoolPtr(s.w.pools, s.w.pool_count)
    IN [s |-> [Store(s, p.base, p.i, Pool_init(Pool(s, p), id, SizeOf(T)))
                  EXCEPT !.w.pool_count = @ + 1],
        p |-> p]

\* World::get_pool<T>
get_pool(s, T) ==
    IF s.fail # "none" THEN [s |-> s, p |-> NullPool]
    ELSE Bind(get_component_id(s, T), LAMBDA g :
         Bind(FindPool(g.s, g.id, 0, g.s.w.pool_count), LAMBDA found :
         IF found # -1 THEN [s |-> g.s, p |-> PoolPtr(g.s.w.pools, found)]
         ELSE Bind(IF g.s.w.pool_count >= g.s.w.pool_capacity THEN GrowPools(g.s) ELSE g.s,
                   LAMBDA s1 :
                   IF s1.fail # "none" THEN [s |-> s1, p |-> NullPool]
                   ELSE AppendPool(s1, g.id, T))))

-----------------------------------------------------------------------------
(* Component_Pool. *)

SetPool(s, ptr, p) == Store(s, ptr.base, ptr.i, p)

\* Component_Pool::sparse_idx
Pool_sparse_idx(s, ptr, e) == At(s, Pool(s, ptr).sparse, get_entity_id(e))

\* Component_Pool::has
Pool_has(s, ptr, e) ==
    LET id == get_entity_id(e)
        p == Pool(s, ptr)
    IN /\ id >= 0
       /\ id < p.sparse_capacity
       /\ At(s, p.sparse, id) # -1

\* get_by_idx that indexes data by element instead of by byte
Pool_get_by_idx_Unscaled(s, ptr, idx) ==
    [buf |-> Pool(s, ptr).data, off |-> idx]

\* Component_Pool::get_by_idx: the address of the payload, as (buffer, byte offset)
Pool_get_by_idx(s, ptr, idx) ==
    [buf |-> Pool(s, ptr).data, off |-> idx * Pool(s, ptr).element_size]

\* Component_Pool::get
Pool_get(s, ptr, e) == Pool_get_by_idx(s, ptr, Pool_sparse_idx(s, ptr, e))

\* *(T* )ref : the element_size bytes at a payload address
ReadPayload(s, ref, size) == [k \in 1..size |-> At(s, ref.buf, ref.off + k - 1)]

\* *(T* )ref = c
WritePayload(s, ref, c) ==
    [s EXCEPT !.heap[ref.buf] =
        [i \in 1..Len(@) |-> IF i > ref.off /\ i <= ref.off + Len(c)
                             THEN c[i - ref.off] ELSE @[i]]]

\* growth of data that runs delete[] on the old buffer whatever iteration_depth is
Pool_grow_data_FreeNow(s, ptr) ==
    LET p == Pool(s, ptr)
        new_capacity == GrowCapacity(p.capacity)
        new_alloc == Addr("U8", ptr.i + 1, new_capacity * p.element_size)
    IN IF s.fail # "none" \/ ~(p.count >= p.capacity) THEN s
       ELSE Bind(Alloc(s, new_alloc, Fill(new_capacity * p.element_size, GarbageByte)),
                 LAMBDA a :
            Bind(IF p.data # nullptr
                 THEN mem_copy(a, new_alloc, p.data, p.capacity * p.element_size)
                 ELSE a, LAMBDA c :
            Bind(IF p.data # nullptr THEN Free(c, p.data) ELSE c, LAMBDA d :
            IF d.fail # "none" THEN d
            ELSE SetPool(d, ptr, [p EXCEPT !.capacity = new_capacity,
                                           !.data = new_alloc]))))

\* Component_Pool::add, lines 970-985: make room in data
Pool_grow_data(s, ptr) ==
    LET p == Pool(s, ptr)
        new_capacity == GrowCapacity(p.capacity)
        new_alloc == Addr("U8", ptr.i + 1, new_capacity * p.element_size)
    IN IF s.fail # "none" \/ ~(p.count >= p.capacity) THEN s
       ELSE Bind(Alloc(s, new_alloc, Fill(new_capacity * p.element_size, GarbageByte)),
                 LAMBDA a :
            Bind(IF p.data # nullptr
                 THEN mem_copy(a, new_alloc, p.data, p.capacity * p.element_size)
                 ELSE a, LAMBDA c :
            Bind(IF p.data # nullptr THEN Release(c, "U8", p.data) ELSE c, LAMBDA d :
            IF d.fail # "none" THEN d
            ELSE SetPool(d, ptr, [p EXCEPT !.capacity = new_capacity,
                                           !.data = new_alloc]))))

\* Component_Pool::add, lines 989-1010: make room in sparse
Pool_grow_sparse(s, ptr, eid) ==
    LET p == Pool(s, ptr)
        new_capacity == eid + 1
        new_alloc == Addr("I64", ptr.i + 1, new_capacity)
    IN IF s.fail # "none" \/ ~(eid >= p.sparse_capacity) THEN s
       ELSE Bind(Alloc(s, new_alloc, Fill(new_capacity, -1)), LAMBDA a :
            Bind(IF p.sparse # nullptr
                 THEN mem_copy(a, new_alloc, p.sparse, p.sparse_capacity)
                 ELSE a, LAMBDA c :
            Bind(IF p.sparse # nullptr THEN Release(c, "I64", p.sparse) ELSE c, LAMBDA d :
            IF d.fail # "none" THEN d
            ELSE SetPool(d, ptr, [p EXCEPT !.sparse = new_alloc,
                                           !.sparse_capacity = new_capacity]))))

\* Component_Pool::add, lines 1014-1029: make room in dense
Pool_grow_dense(s, ptr) ==
    LET p == Pool(s, ptr)
        new_capacity == GrowCapacity(p.dense_capacity)
        new_alloc == Addr("ENTITY_HANDLE", ptr.i + 1, new_capacity)
    IN IF s.fail # "none" \/ ~(p.dense_count >= p.dense_capacity) THEN s
       ELSE Bind(Alloc(s, new_alloc, Fill(new_capacity, GarbageHandle)), LAMBDA a :
            Bind(IF p.dense # nullptr
                 THEN mem_copy(a, new_alloc, p.dense, p.dense_capacity)
                 ELSE a, LAMBDA c :
            Bind(IF p.dense # nullptr THEN Release(c, "ENTITY_HANDLE", p.dense) ELSE c,
                 LAMBDA d :
            IF d.fail # "none" THEN d
            ELSE SetPool(d, ptr, [p EXCEPT !.dense_capacity = new_capacity,
                                           !.dense = new_alloc]))))

\* Component_Pool::add, line 987: new_el = &data[(count++) * element_size]
Pool_take_slot(s, ptr) ==
    LET p == Pool(s, ptr)
    IN [s |-> IF s.fail # "none" THEN s ELSE SetPool(s, ptr, [p EXCEPT !.count = @ + 1]),
        el |-> [buf |-> p.data, off |-> p.count * p.element_size]]

\* Component_Pool::add, line 1012: sparse[eid] = dense_count
Pool_link_sparse(s, ptr, eid) ==
    IF s.fail # "none" THEN s
    ELSE Store(s, Pool(s, ptr).sparse, eid, Pool(s, ptr).dense_count)

\* Component_Pool::add, line 1031: dense[dense_count++] = e
Pool_push_dense(s, ptr, e) ==
    LET p == Pool(s, ptr)
    IN IF s.fail # "none" THEN s
       ELSE Bind(Store(s, p.dense, p.dense_count, e), LAMBDA s1 :
                 SetPool(s1, ptr, [p EXCEPT !.dense_count = @ + 1]))

\* Component_Pool::add
Pool_add(s, ptr, e) ==
    Bind(Pool_grow_data(s, ptr), LAMBDA s1 :
    Bind(Pool_take_slot(s1, ptr), LAMBDA t :
    Bind(Pool_grow_sparse(t.s, ptr, get_entity_id(e)), LAMBDA s3 :
    Bind(Pool_link_sparse(s3, ptr, get_entity_id(e)), LAMBDA s4 :
    Bind(Pool_grow_dense(s4, ptr), LAMBDA s5 :
    [s |-> Pool_push_dense(s5, ptr, e), el |-> t.el])))))

-----------------------------------------------------------------------------
(* Hooks.  A registered hook is the example's: it reads the component of  *)
(* the entity it is given (e.get<T>()), which asserts valid() and has<T>(). *)

\* on_tag_create / on_tag_destroy of example.cpp, run on pool ptr for entity e
RunHook(s, which, ptr, e) ==
    LET ok == Entity_valid(s, Entity(e))
        has == ok /\ Pool_has(s, ptr, e)
        p == Pool(s, ptr)
        seen == [hook |-> which, type |-> TypeOfId(s, p.id), e |-> e,
                 valid |-> ok, has |-> has,
                 value |-> IF has THEN ReadPayload(s, Pool_get(s, ptr, e), p.element_size)
                           ELSE <<>>]
        s1 == [s EXCEPT !.hooks = Append(@, seen)]
    IN IF s.fail # "none" THEN s
       ELSE IF ~ok THEN Fail(s1, "Invalid entity.")
       ELSE IF ~has THEN Fail(s1, "Entity doesn't have the requested component.")
       ELSE s1

\* memmove that moves one byte whatever the length
memmove_OneByte(s, buf, dst, src, n) ==
    [s EXCEPT !.heap[buf] =
        [i \in 1..Len(@) |-> IF i > dst /\ i <= dst + 1
                             THEN s.heap[buf][i - dst + src] ELSE @[i]]]

\* memmove(dst, src, n) inside one buffer
memmove(s, buf, dst, src, n) ==
    [s EXCEPT !.heap[buf] =
        [i \in 1..Len(@) |-> IF i > dst /\ i <= dst + n
                             THEN s.heap[buf][i - dst + src] ELSE @[i]]]

\* swap and pop that forgets to point the moved entity's sparse entry at its new place
Pool_swap_pop_NoRelink(s, ptr, e) ==
    LET p == Pool(s, ptr)
        pos == At(s, p.sparse, get_entity_id(e))
        other == At(s, p.dense, p.dense_count - 1)
    IN Bind(Store(s, p.dense, pos, other), LAMBDA s3 :
       Bind(Store(s3, p.sparse, get_entity_id(e), -1), LAMBDA s4 :
       Bind(memmove(s4, p.data, pos * p.element_size,
                    (p.count - 1) * p.element_size, p.element_size), LAMBDA s5 :
       SetPool(s5, ptr, [p EXCEPT !.dense_count = @ - 1, !.count = @ - 1]))))

\* swap and pop that leaves the removed entity's sparse entry as it was
Pool_swap_pop_KeepSparse(s, ptr, e) ==
    LET p == Pool(s, ptr)
        pos == At(s, p.sparse, get_entity_id(e))
        other == At(s, p.dense, p.dense_count - 1)
    IN Bind(Store(s, p.sparse, get_entity_id(other), pos), LAMBDA s2 :
       Bind(Store(s2, p.dense, pos, other), LAMBDA s3 :
       Bind(memmove(s3, p.data, pos * p.element_size,
                    (p.count - 1) * p.element_size, p.element_size), LAMBDA s5 :
       SetPool(s5, ptr, [p EXCEPT !.dense_count = @ - 1, !.count = @ - 1]))))

\* Component_Pool::remove, lines 1041-1051: swap and pop
Pool_swap_pop(s, ptr, e) ==
    LET p == Pool(s, ptr)
        pos == At(s, p.sparse, get_entity_id(e))
        other == At(s, p.dense, p.dense_count - 1)
    IN Bind(Store(s, p.sparse, get_entity_id(other), pos), LAMBDA s2 :
       Bind(Store(s2, p.dense, pos, other), LAMBDA s3 :
       Bind(Store(s3, p.sparse, get_entity_id(e), -1), LAMBDA s4 :
       Bind(memmove(s4, p.data, pos * p.element_size,
                    (p.count - 1) * p.element_size, p.element_size), LAMBDA s5 :
       SetPool(s5, ptr, [p EXCEPT !.dense_count = @ - 1, !.count = @ - 1])))))

\* Entity::has<T>
Entity_has(s, e, T) ==
    IF s.fail # "none" THEN [s |-> s, r |-> FALSE]
    ELSE IF ~Entity_valid(s, e) THEN [s |-> Fail(s, "Invalid entity."), r |-> FALSE]
    ELSE Bind(get_pool(s, T), LAMBDA g :
         IF g.s.fail # "none" THEN [s |-> g.s, r |-> FALSE]
         ELSE [s |-> g.s, r |-> Pool_has(g.s, g.p, e.handle)])

NullRef == [buf |-> nullptr, off |-> 0]

\* add that calls on_create before the payload is written
Entity_add_body_HookFirst(s, e, T, c) ==
    Bind(get_pool(s, T), LAMBDA g :
    Bind(Pool_add(g.s, g.p, e.handle), LAMBDA a :
    IF a.s.fail # "none" THEN [s |-> a.s, ref |-> NullRef]
    ELSE Bind(IF Pool(a.s, g.p).on_create # "none"
              THEN RunHook(a.s, "create", g.p, e.handle) ELSE a.s, LAMBDA s1 :
         [s |-> WritePayload(s1, a.el, c), ref |-> a.el])))

\* Entity::add<T>, lines 875-885: after the assertions
Entity_add_body(s, e, T, c) ==
    Bind(get_pool(s, T), LAMBDA g :
    Bind(Pool_add(g.s, g.p, e.handle), LAMBDA a :
    IF a.s.fail # "none" THEN [s |-> a.s, ref |-> NullRef]
    ELSE Bind(WritePayload(a.s, a.el, c), LAMBDA s1 :
         [s |-> IF Pool(s1, g.p).on_create # "none"
                THEN RunHook(s1, "create", g.p, e.handle) ELSE s1,
          ref |-> a.el])))

\* add without the assertion on has<T>()
Entity_add_NoDupCheck(s, e, T, c) ==
    IF s.fail # "none" THEN [s |-> s, ref |-> NullRef]
    ELSE IF ~Entity_valid(s, e) THEN [s |-> Fail(s, "Invalid entity."), ref |-> NullRef]
    ELSE Bind(Entity_has(s, e, T), LAMBDA h :
         IF h.s.fail # "none" THEN [s |-> h.s, ref |-> NullRef]
         ELSE Entity_add_body(h.s, e, T, c))

\* Entity::add<T>
Entity_add(s, e, T, c) ==
    IF s.fail # "none" THEN [s |-> s, ref |-> NullRef]
    ELSE IF ~Entity_valid(s, e) THEN [s |-> Fail(s, "Invalid entity."), ref |-> NullRef]
    ELSE Bind(Entity_has(s, e, T), LAMBDA h :
         IF h.s.fail # "none" THEN [s |-> h.s, ref |-> NullRef]
         ELSE IF h.r
         THEN [s |-> Fail(h.s, "Entity already has the specified component."),
               ref |-> NullRef]
         ELSE Entity_add_body(h.s, e, T, c))

\* an on_destroy function of the client that gives the entity it is handed a
\* component of the other type when the entity lacks one:
\*   if (!e.has<U>()) { e.add<U>(U {...}); }
on_destroy_add(s, ptr, e) ==
    IF s.fail # "none" THEN s
    ELSE Bind(CHOOSE X \in Types : X # TypeOfId(s, Pool(s, ptr).id), LAMBDA U :
         Bind(Entity_has(s, Entity(e), U), LAMBDA h :
              IF h.s.fail # "none" \/ h.r THEN h.s
              ELSE Entity_add(h.s, Entity(e), U, Fixed(U)).s))

\* remove that calls on_destroy after the swap and pop
Pool_remove_HookLast(s, ptr, e) ==
    IF s.fail # "none" THEN s
    ELSE Bind(Pool_swap_pop(s, ptr, e), LAMBDA s1 :
              IF Pool(s1, ptr).on_destroy # "none" THEN RunHook(s1, "destroy", ptr, e)
              ELSE s1)

\* Component_Pool::remove
Pool_remove(s, ptr, e) ==
    IF s.fail # "none" THEN s
    ELSE Bind(IF Pool(s, ptr).on_destroy = "none" THEN s
              ELSE IF Pool(s, ptr).on_destroy = "add" THEN on_destroy_add(s, ptr, e)
              ELSE RunHook(s, "destroy", ptr, e),
              LAMBDA s1 :
              IF s1.fail # "none" THEN s1 ELSE Pool_swap_pop(s1, ptr, e))

-----------------------------------------------------------------------------
(* Entity. *)

RECURSIVE DestroyLoop(_, _, _)
\* Entity::destroy, lines 851-855: remove e from every pool that has it
DestroyLoop(s, e, i) ==
    IF s.fail # "none" \/ ~(i < s.w.pool_count) THEN s
    ELSE Bind(IF Pool_has(s, PoolPtr(s.w.pools, i), e)
              THEN Pool_remove(s, PoolPtr(s.w.pools, i), e) ELSE s,
              LAMBDA s1 : DestroyLoop(s1, e, i + 1))

\* destroy that asserts only that the slot exists, not that it holds the handle
Entity_destroy_SlotOnly(s, e) ==
    IF s.fail # "none" THEN s
    ELSE IF ~(e.world /\ ULess(get_entity_id(e.handle), s.w.entity_count))
    THEN Fail(s, "Invalid entity.")
    ELSE Bind(DestroyLoop(s, e.handle, 0), LAMBDA s1 :
         IF s1.fail # "none" THEN s1
         ELSE Bind(release_entity(s1, e.handle,
                                  VersionSucc(get_entity_version(e.handle))),
                   LAMBDA s2 : [s2 EXCEPT !.w.alive_count = @ - 1]))

\* Entity::destroy
Entity_destroy(s, e) ==
    IF s.fail # "none" THEN s
    ELSE IF ~Entity_valid(s, e) THEN Fail(s, "Invalid entity.")
    ELSE Bind(DestroyLoop(s, e.handle, 0), LAMBDA s1 :
         IF s1.fail # "none" THEN s1
         ELSE Bind(release_entity(s1, e.handle,
                                  VersionSucc(get_entity_version(e.handle))),
                   LAMBDA s2 : [s2 EXCEPT !.w.alive_count = @ - 1]))

\* Entity::get<T>: the reference returned
Entity_get(s, e, T) ==
    IF s.fail # "none" THEN [s |-> s, ref |-> NullRef]
    ELSE IF ~Entity_valid(s, e) THEN [s |-> Fail(s, "Invalid entity."), ref |-> NullRef]
    ELSE Bind(Entity_has(s, e, T), LAMBDA h :
         IF h.s.fail # "none" THEN [s |-> h.s, ref |-> NullRef]
         ELSE IF ~h.r
         THEN [s |-> Fail(h.s, "Entity doesn't have the requested component."),
               ref |-> NullRef]
         ELSE Bind(get_pool(h.s, T), LAMBDA g :
                   [s |-> g.s, ref |-> Pool_get(g.s, g.p, e.handle)]))

\* remove that returns quietly when the entity has no T
Entity_remove_Quiet(s, e, T) ==
    IF s.fail # "none" THEN s
    ELSE IF ~Entity_valid(s, e) THEN Fail(s, "Invalid entity.")
    ELSE Bind(Entity_has(s, e, T), LAMBDA h :
         IF h.s.fail # "none" \/ ~h.r THEN h.s
         ELSE Bind(get_pool(h.s, T), LAMBDA g : Pool_remove(g.s, g.p, e.handle)))

\* Entity::remove<T>
Entity_remove(s, e, T) ==
    IF s.fail # "none" THEN s
    ELSE IF ~Entity_valid(s, e) THEN Fail(s, "Invalid entity.")
    ELSE Bind(Entity_has(s, e, T), LAMBDA h :
         IF h.s.fail # "none" THEN h.s
         ELSE IF ~h.r THEN Fail(h.s, "Entity doesn't have the requested component.")
         ELSE Bind(get_pool(h.s, T), LAMBDA g : Pool_remove(g.s, g.p, e.handle)))

\* World::set_create_func<T>
set_create_func(s, T, f) ==
    Bind(get_pool(s, T), LAMBDA g :
         IF g.s.fail # "none" THEN g.s
         ELSE SetPool(g.s, g.p, [Pool(g.s, g.p) EXCEPT !.on_create = f]))

\* World::set_destroy_func<T>
set_destroy_func(s, T, f) ==
    Bind(get_pool(s, T), LAMBDA g :
         IF g.s.fail # "none" THEN g.s
         ELSE SetPool(g.s, g.p, [Pool(g.s, g.p) EXCEPT !.on_destroy = f]))

-----------------------------------------------------------------------------
(* View. *)

\* a default-constructed View with world set (the "nv" of _new_view)
NewView ==
    [to_pool |-> <<>>, pools |-> <<>>, pool_count |-> 0, pool |-> NullPool,
     idx |-> 0, entity |-> null_handle]

\* View::contains
View_contains(s, v, handle) ==
    \A i \in 1..v.pool_count : Pool_has(s, v.pools[i], handle)

\* a cursor that looks again at its position when another entity was moved there
View_step_Revisit(s, v) ==
    IF v.idx < Pool(s, v.pool).dense_count
       /\ At(s, Pool(s, v.pool).dense, v.idx) # v.entity
    THEN [v EXCEPT !.entity = At(s, Pool(s, v.pool).dense, v.idx)]
    ELSE IF v.idx # 0
    THEN [v EXCEPT !.idx = v.idx - 1,
                   !.entity = At(s, Pool(s, v.pool).dense, v.idx - 1)]
    ELSE [v EXCEPT !.entity = null_handle]

\* View::next, lines 200-205: one step of the cursor
View_step(s, v) ==
    IF v.idx # 0
    THEN [v EXCEPT !.idx = v.idx - 1,
                   !.entity = At(s, Pool(s, v.pool).dense, v.idx - 1)]
    ELSE [v EXCEPT !.entity = null_handle]

RECURSIVE View_next(_, _)
\* View::next
View_next(s, v) ==
    Bind(View_step(s, v), LAMBDA v1 :
         IF v1.entity # null_handle /\ ~View_contains(s, v1, v1.entity)
         THEN View_next(s, v1)
         ELSE v1)

\* a choice of driver that takes the last of the smallest pools, not the first
PickDriver_LastOnTie(s, cur, ptr) ==
    IF cur = NullPool THEN ptr
    ELSE IF Pool(s, ptr).count <= Pool(s, cur).count THEN ptr
    ELSE cur

\* World::_new_view, lines 347-351: the driver after looking at one more pool
PickDriver(s, cur, ptr) ==
    IF cur = NullPool THEN ptr
    ELSE IF Pool(s, ptr).count < Pool(s, cur).count THEN ptr
    ELSE cur

RECURSIVE ResolvePools(_, _, _, _)
\* World::_new_view, lines 331-353: resolve each type id, pick the driver.
\* Yields the view, or NewView as soon as one type has no pool.
ResolvePools(s, types, i, v) ==
    IF i > Len(types) THEN v
    ELSE Bind(FindPool(s, types[i], 0, s.w.pool_count), LAMBDA ii :
         IF ii = -1 THEN NewView
         ELSE Bind([v EXCEPT !.pools = Append(@, PoolPtr(s.w.pools, ii)),
                             !.pool = PickDriver(s, v.pool, PoolPtr(s.w.pools, ii)),
                             !.to_pool = Append(@, types[i])],
                   LAMBDA v1 : ResolvePools(s, types, i + 1, v1)))

\* cursor placement that takes the driver's last entity without looking at the
\* other pools
PlaceCursor_NoSkip(s, v) ==
    IF v.pool # NullPool /\ Pool(s, v.pool).count # 0
    THEN [v EXCEPT !.idx = Pool(s, v.pool).count - 1,
                   !.entity = At(s, Pool(s, v.pool).dense, Pool(s, v.pool).count - 1)]
    ELSE [v EXCEPT !.idx = 0, !.entity = null_handle]

\* World::_new_view, lines 355-364: place the cursor
PlaceCursor(s, v) ==
    IF v.pool # NullPool /\ Pool(s, v.pool).count # 0
    THEN Bind([v EXCEPT !.idx = Pool(s, v.pool).count - 1,
                        !.entity = At(s, Pool(s, v.pool).dense, Pool(s, v.pool).count - 1)],
              LAMBDA v1 :
              IF ~View_contains(s, v1, v1.entity) THEN View_next(s, v1) ELSE v1)
    ELSE [v EXCEPT !.idx = 0, !.entity = null_handle]

\* _new_view that counts the view as open only once its pools are resolved
_new_view_LateDepth(s, types) ==
    Bind(ResolvePools(s, types, 1, [NewView EXCEPT !.pool_count = Len(types)]), LAMBDA v :
         IF v = NewView THEN [s |-> s, v |-> v]
         ELSE Bind([s EXCEPT !.w.iteration_depth = @ + 1], LAMBDA s1 :
                   [s |-> s1, v |-> PlaceCursor(s1, v)]))

\* World::_new_view
_new_view(s, types) ==
    Bind([s EXCEPT !.w.iteration_depth = @ + 1], LAMBDA s1 :
    Bind(ResolvePools(s1, types, 1, [NewView EXCEPT !.pool_count = Len(types)]), LAMBDA v :
         [s |-> s1, v |-> IF v = NewView THEN v ELSE PlaceCursor(s1, v)]))

RECURSIVE ComponentIds(_, _, _)
\* the ids[] array the new_view<...> templates build, in the caller's order
ComponentIds(s, Ts, i) ==
    IF i > Len(Ts) THEN [s |-> s, ids |-> <<>>]
    ELSE Bind(get_component_id(s, Ts[i]), LAMBDA g :
         Bind(ComponentIds(g.s, Ts, i + 1), LAMBDA r :
              [s |-> r.s, ids |-> <<g.id>> \o r.ids]))

\* World::new_view<Ts...>
new_view(s, Ts) ==
    Bind(ComponentIds(s, Ts, 1), LAMBDA c : _new_view(c.s, c.ids))

\* valid() that commits the deferred frees whenever a view is exhausted
View_valid_AlwaysCommit(s, v) ==
    IF v.entity # null_handle THEN [s |-> s, r |-> TRUE]
    ELSE Bind([s EXCEPT !.w.iteration_depth = @ - 1], LAMBDA s1 :
              [s |-> commit_deletions(s1), r |-> FALSE])

\* View::valid
View_valid(s, v) ==
    IF v.entity # null_handle THEN [s |-> s, r |-> TRUE]
    ELSE Bind([s EXCEPT !.w.iteration_depth = @ - 1], LAMBDA s1 :
              [s |-> IF s1.w.iteration_depth <= 0 THEN commit_deletions(s1) ELSE s1,
               r |-> FALSE])

\* View::get_entity
View_get_entity(v) == Entity(v.entity)

\* View::get_idx
View_get_idx(v, id) ==
    IF IndexOf(v.to_pool, id, 1) # 0 /\ IndexOf(v.to_pool, id, 1) <= v.pool_count
    THEN IndexOf(v.to_pool, id, 1) - 1 ELSE 0

\* View::get<T>: the reference returned
View_get(s, v, T) ==
    Pool_get(s, v.pools[View_get_idx(v, get_component_id(s, T).id) + 1], v.entity)

\* shrinking to exactly count elements, without rounding up to a multiple of 8
ShrinkPool_NoRound(s, ptr) ==
    LET p == Pool(s, ptr)
        capacity == p.count
        new_alloc == Addr("U8", ptr.i + 1, capacity * p.element_size)
    IN IF p.count > ShrinkGranule /\ p.capacity > p.count * 2
       THEN Bind(Alloc(s, new_alloc, Fill(capacity * p.element_size, GarbageByte)),
                 LAMBDA a :
            Bind(mem_copy(a, new_alloc, p.data, capacity), LAMBDA c :
            Bind(Free(c, p.data), LAMBDA d :
            SetPool(d, ptr, [p EXCEPT !.capacity = capacity, !.data = new_alloc]))))
       ELSE s

\* World::collect_garbage, lines 436-447: shrink one pool
ShrinkPool(s, ptr) ==
    LET p == Pool(s, ptr)
        r == p.count % ShrinkGranule
        capacity == IF r # 0 THEN p.count + (ShrinkGranule - r) ELSE p.count
        new_alloc == Addr("U8", ptr.i + 1, capacity * p.element_size)
    IN IF p.count > ShrinkGranule /\ p.capacity > p.count * 2
       THEN Bind(Alloc(s, new_alloc, Fill(capacity * p.element_size, GarbageByte)),
                 LAMBDA a :
            Bind(mem_copy(a, new_alloc, p.data, capacity), LAMBDA c :
            Bind(Free(c, p.data), LAMBDA d :
            SetPool(d, ptr, [p EXCEPT !.capacity = capacity, !.data = new_alloc]))))
       ELSE s

RECURSIVE ShrinkLoop(_, _)
ShrinkLoop(s, i) ==
    IF ~(i < s.w.pool_count) THEN s
    ELSE Bind(ShrinkPool(s, PoolPtr(s.w.pools, i)), LAMBDA s1 : ShrinkLoop(s1, i + 1))

\* World::collect_garbage
collect_garbage(s) == Bind(commit_deletions(s), LAMBDA s1 : ShrinkLoop(s1, 0))

-----------------------------------------------------------------------------
(* The state machine.  One step is one call the client makes into the      *)
(* library, run to completion (hooks included).  A failed assertion ends   *)
(* the process: no step is taken once failure is set.                      *)

\* the View objects the client holds
ViewIds == {1, 2}

\* the live entities
Live == issued \ gone

\* the entities that have every type of the list, by the client's record
Matching(Ts) == {h \in Live : \A i \in 1..Len(Ts) : <<h, Ts[i]>> \in DOMAIN comp}

\* the elements of a sequence
Range(f) == {f[i] : i \in DOMAIN f}

\* the entities in the dense array of pool ptr of state s
Members(s, ptr) ==
    IF ptr = NullPool THEN {}
    ELSE {At(s, Pool(s, ptr).dense, i) : i \in 0..(Pool(s, ptr).dense_count - 1)}

NoView == [state |-> "none", v |-> NewView, types |-> <<>>, yielded |-> <<>>,
           clean |-> TRUE, depth0 |-> 0, pools0 |-> 0, matched0 |-> {}, driver0 |-> {}]

Cur == [heap |-> heap, w |-> world, ids |-> type_ids, fail |-> failure,
        hooks |-> <<>>]

Commit(r) ==
    /\ heap' = r.heap
    /\ world' = r.w
    /\ type_ids' = r.ids
    /\ failure' = r.fail
    /\ hook_log' = r.hooks

\* a structural change was made while these views existed
Dirty(vs) ==
    [k \in DOMAIN vs |-> IF vs[k].state # "none" THEN [vs[k] EXCEPT !.clean = FALSE]
                         ELSE vs[k]]

Put(f, k, x) == [y \in DOMAIN f \cup {k} |-> IF y = k THEN x ELSE f[y]]

Drop(f, ks) == [y \in DOMAIN f \ ks |-> f[y]]

\* a sequence of slots without slot x
Without(seq, x) == SelectSeq(seq, LAMBDA y : y # x)

InitWorld ==
    [entities |-> nullptr, entity_capacity |-> 0, entity_count |-> 0, alive_count |-> 0,
     avail_id |-> null_entity_id,
     pools |-> nullptr, pool_count |-> 0, pool_capacity |-> 0,
     delete_buffer |-> <<>>, iteration_depth |-> 0]

InitCommon ==
    /\ heap = <<>>
    /\ world = InitWorld
    /\ type_ids = <<>>
    /\ views = [k \in ViewIds |-> NoView]
    /\ failure = "none"
    /\ issued = {}
    /\ gone = {}
    /\ freed = <<>>
    /\ comp = <<>>
    /\ hook_log = <<>>
    /\ adds = 0

DoNewEntity ==
    \E r \in {new_entity(Cur)} :
       /\ Commit(r.s)
       /\ issued' = issued \cup {r.e}
       /\ freed' = Without(freed, get_entity_id(r.e))
       /\ UNCHANGED <<views, gone, comp, adds>>

DoDestroy(e) ==
    \E r \in {Entity_destroy(Cur, e)} :
       /\ Commit(r)
       /\ gone' = IF r.fail = "none" THEN gone \cup {e.handle} ELSE gone
       /\ freed' = IF r.fail = "none" THEN Append(freed, get_entity_id(e.handle)) ELSE freed
       /\ comp' = IF r.fail = "none" THEN Drop(comp, {<<e.handle, T>> : T \in Types})
                  ELSE comp
       /\ views' = IF r.fail = "none" THEN Dirty(views) ELSE views
       /\ UNCHANGED <<issued, adds>>

DoHas(e, T) ==
    \E r \in {Entity_has(Cur, e, T)} :
       /\ Commit(r.s)
       /\ UNCHANGED <<views, issued, gone, freed, comp, adds>>

DoAdd(e, T, c) ==
    \E r \in {Entity_add(Cur, e, T, c)} :
       /\ Commit(r.s)
       /\ comp' = IF r.s.fail = "none" THEN Put(comp, <<e.handle, T>>, c) ELSE comp
       /\ views' = IF r.s.fail = "none" THEN Dirty(views) ELSE views
       /\ adds' = adds + 1
       /\ UNCHANGED <<issued, gone, freed>>

\* e.get<T>() = c
DoWrite(e, T, c) ==
    \E r \in {Entity_get(Cur, e, T)} :
       /\ Commit(IF r.s.fail = "none" THEN WritePayload(r.s, r.ref, c) ELSE r.s)
       /\ comp' = IF r.s.fail = "none" THEN Put(comp, <<e.handle, T>>, c) ELSE comp
       /\ UNCHANGED <<views, issued, gone, freed, adds>>

DoRemove(e, T) ==
    \E r \in {Entity_remove(Cur, e, T)} :
       /\ Commit(r)
       /\ comp' = IF r.fail = "none" THEN Drop(comp, {<<e.handle, T>>}) ELSE comp
       /\ views' = IF r.fail = "none" THEN Dirty(views) ELSE views
       /\ UNCHANGED <<issued, gone, freed, adds>>

DoNewView(k, Ts) ==
    \E r \in {new_view(Cur, Ts)} :
       /\ Commit(r.s)
       /\ views' = [views EXCEPT ![k] =
                       [state |-> "check", v |-> r.v, types |-> Ts, yielded |-> <<>>,
                        clean |-> TRUE, depth0 |-> world.iteration_depth,
                        pools0 |-> world.pool_count, matched0 |-> Matching(Ts),
                        driver0 |-> Members(r.s, r.v.pool)]]
       /\ UNCHANGED <<issued, gone, freed, comp, adds>>

\* the loop condition view.valid(); when true the body runs with get_entity()
DoValid(k) ==
    \E r \in {View_valid(Cur, views[k].v)} :
       /\ Commit(r.s)
       /\ views' = [views EXCEPT ![k] =
                       IF r.r
                       THEN [@ EXCEPT !.state = "body",
                                      !.yielded = Append(@, View_get_entity(views[k].v).handle)]
                       ELSE [@ EXCEPT !.state = "done"]]
       /\ UNCHANGED <<issued, gone, freed, comp, adds>>

\* the loop increment view.next()
DoNext(k) ==
    /\ Commit(Cur)
    /\ views' = [views EXCEPT ![k].state = "check", ![k].v = View_next(Cur, views[k].v)]
    /\ UNCHANGED <<issued, gone, freed, comp, adds>>

DoCollectGarbage ==
    /\ Commit(collect_garbage(Cur))
    /\ UNCHANGED <<views, issued, gone, freed, comp, adds>>

-----------------------------------------------------------------------------
(* Spec and SpecIdent: a client that creates and destroys entities and     *)
(* adds, overwrites and removes components in any order, keeping to the    *)
(* preconditions the library asserts (a valid entity; the component        *)
(* present or absent, by the client's own record of what it attached).     *)
(* Spec varies the payloads; SpecIdent recycles slots more often and       *)
(* always writes the same payload.                                         *)

Alive == failure = "none"

\* the live entities the client holds
Held == {Entity(h) : h \in issued \ gone}

\* the client's record says e has a T
Attached(e, T) == <<e.handle, T>> \in DOMAIN comp

EntityLimit ==
    IF pc = "ident" THEN MaxIdEntities
    ELSE IF pc \in {"hook", "leak"} THEN MaxHookEntities
    ELSE IF pc = "ver" THEN MaxVerEntities
    ELSE IF pc = "cur" THEN MaxCurEntities
    ELSE IF pc = "full" THEN MaxFullEntities
    ELSE IF pc = "view" THEN MaxViewEntities
    ELSE IF pc = "nest" THEN MaxNestEntities ELSE MaxEntities

DestroyLimit ==
    IF pc = "ident" THEN MaxIdDestroys
    ELSE IF pc = "ver" THEN MaxVerDestroys
    ELSE IF pc \in {"hook", "leak"} THEN MaxHookDestroys ELSE MaxDestroys

AddLimit ==
    IF pc = "ident" THEN MaxIdAdds
    ELSE IF pc \in {"hook", "leak"} THEN MaxHookAdds
    ELSE IF pc = "cur" THEN MaxCurAdds
    ELSE IF pc = "full" THEN MaxFullAdds
    ELSE IF pc = "view" THEN MaxViewAdds
    ELSE IF pc = "nest" THEN MaxNestAdds ELSE MaxAdds


\* the payloads the client chooses among
Choices(T) == IF pc = "pool" THEN Payloads(T) ELSE {Fixed(T)}

\* no view is open
Idle == \A k \in ViewIds : views[k].state = "none"

NewEntity ==
    /\ Alive
    /\ Idle
    /\ world.entity_count < EntityLimit \/ world.avail_id # null_entity_id
    /\ DoNewEntity
    /\ UNCHANGED <<pc, loop>>

Destroy ==
    /\ Alive
    /\ Idle
    /\ Cardinality(gone) < DestroyLimit
    /\ \E e \in Held : DoDestroy(e)
    /\ UNCHANGED <<pc, loop>>

Add ==
    /\ Alive
    /\ Idle
    /\ adds < AddLimit
    /\ \E e \in Held, T \in Types : \E c \in Choices(T) :
          /\ ~Attached(e, T)
          /\ DoAdd(e, T, c)
    /\ UNCHANGED <<pc, loop>>

Write ==
    /\ Alive
    /\ Idle
    /\ \E e \in Held, T \in Types : \E c \in Choices(T) :
          /\ Attached(e, T)
          /\ DoWrite(e, T, c)
    /\ UNCHANGED <<pc, loop>>

Remove ==
    /\ Alive
    /\ Idle
    /\ \E e \in Held, T \in Types :
          /\ Attached(e, T)
          /\ DoRemove(e, T)
    /\ UNCHANGED <<pc, loop>>

NoLoop == [n |-> 0, i |-> 0, e |-> null_handle]

Init ==
    /\ InitCommon
    /\ pc = "pool"
    /\ loop = NoLoop

Next ==
    \/ NewEntity
    \/ Destroy
    \/ Add
    \/ Write
    \/ Remove

Spec == Init /\ [][Next]_vars

\* the client breaks a precondition: an operation through the null entity or
\* through a handle it has destroyed (loop.e keeps the handle used)
Misuse ==
    /\ Alive
    /\ Idle
    /\ \E e \in {NullEntity} \cup {Entity(h) : h \in gone} :
          /\ ~Entity_valid(Cur, e)
          /\ \/ DoDestroy(e)
             \/ \E T \in Types : \/ DoHas(e, T)
                                 \/ DoAdd(e, T, Fixed(T))
                                 \/ DoWrite(e, T, Fixed(T))
                                 \/ DoRemove(e, T)
          /\ loop' = [loop EXCEPT !.e = e.handle]
    /\ UNCHANGED pc

\* the client breaks a precondition: add<T>() on an entity that has a T
AddAgain ==
    /\ Alive
    /\ Idle
    /\ \E e \in Held, T \in Types : \E c \in Payloads(T) :
          /\ Attached(e, T)
          /\ DoAdd(e, T, c)
          /\ loop' = [loop EXCEPT !.e = e.handle]
    /\ UNCHANGED pc

InitIdent ==
    /\ InitCommon
    /\ pc = "ident"
    /\ loop = NoLoop

NextIdent ==
    \/ NewEntity
    \/ Destroy
    \/ Add
    \/ Remove

SpecIdent == InitIdent /\ [][NextIdent]_vars

\* the client breaks a precondition: get<T>() or remove<T>() on an entity
\* that has no T
Missing ==
    /\ Alive
    /\ Idle
    /\ \E e \in Held, T \in Types :
          /\ ~Attached(e, T)
          /\ \/ DoWrite(e, T, Fixed(T))
             \/ DoRemove(e, T)
          /\ loop' = [loop EXCEPT !.e = e.handle]
    /\ UNCHANGED pc

(* SpecMisuse: the client of SpecIdent, which may also break a             *)
(* precondition once; the assertion that fires ends the run.               *)
NextMisuse ==
    \/ NextIdent
    \/ Misuse
    \/ AddAgain
    \/ Missing

SpecMisuse == InitIdent /\ [][NextMisuse]_vars

(* SpecHook: the client of SpecIdent, which also registers on_create and  *)
(* on_destroy functions for the component types at any moment. The         *)
(* registered function asks the entity it is given valid(), has<T>() and   *)
(* get<T>() and records the answers (RunHook).                             *)

\* world.set_create_func<T>(f); or world.set_destroy_func<T>(f);
SetFunc ==
    /\ Alive
    /\ Idle
    /\ \E T \in Types :
       \E r \in {set_create_func(Cur, T, "f"), set_destroy_func(Cur, T, "f")} :
          /\ r # Cur
          /\ Commit(r)
    /\ UNCHANGED <<views, issued, gone, freed, comp, adds, pc, loop>>

InitHook ==
    /\ InitCommon
    /\ pc = "hook"
    /\ loop = NoLoop

NextHook ==
    \/ SetFunc
    \/ NewEntity
    \/ Destroy
    \/ Add
    \/ Remove

SpecHook == InitHook /\ [][NextHook]_vars

(* SpecLeak: the client of SpecHook, which may also register as on_destroy *)
(* a function that adds a component of the other type to the entity it is *)
(* handed (on_destroy_add).                                                *)

\* world.set_destroy_func<T>(on_destroy_add);
SetAdd ==
    /\ Alive
    /\ Idle
    /\ \E T \in Types :
       \E r \in {set_destroy_func(Cur, T, "add")} :
          /\ r # Cur
          /\ Commit(r)
    /\ UNCHANGED <<views, issued, gone, freed, comp, adds, pc, loop>>

InitLeak ==
    /\ InitCommon
    /\ pc = "leak"
    /\ loop = NoLoop

NextLeak ==
    \/ SetFunc
    \/ SetAdd
    \/ NewEntity
    \/ Destroy
    \/ Add
    \/ Remove

SpecLeak == InitLeak /\ [][NextLeak]_vars

(* SpecVer: the identity table late in a long run. Slot 0 holds a live     *)
(* entity whose version is v0: the state after v0 rounds of destroy() and  *)
(* new_entity() on a world with one entity (2^32 - 1 rounds for            *)
(* UINT32_MAX, written -1). loop.n keeps v0; gone and freed record the     *)
(* destructions from here on.                                              *)
AgedVersions == {0, 1, 2147483646, 2147483647, (-2147483647) - 1, -2, -1}

Aged(v0) ==
    Bind(new_entity([heap |-> <<>>, w |-> InitWorld, ids |-> <<>>, fail |-> "none",
                     hooks |-> <<>>]).s, LAMBDA s1 :
         Store(s1, s1.w.entities, 0, make_handle(0, v0)))

InitVer ==
    \E v0 \in AgedVersions : \E s0 \in {Aged(v0)} :
       /\ heap = s0.heap
       /\ world = s0.w
       /\ type_ids = <<>>
       /\ views = [k \in ViewIds |-> NoView]
       /\ failure = "none"
       /\ issued = {make_handle(0, v0)}
       /\ gone = {}
       /\ freed = <<>>
       /\ comp = <<>>
       /\ hook_log = <<>>
       /\ adds = 0
       /\ pc = "ver"
       /\ loop = [NoLoop EXCEPT !.n = v0]

NextVer ==
    \/ NewEntity
    \/ Destroy

SpecVer == InitVer /\ [][NextVer]_vars

-----------------------------------------------------------------------------
(* SpecView: the client creates entities, attaches and removes components, *)
(* then opens a view over one or two component types and runs the loop     *)
(*     for (auto view = world.new_view<Ts...>(); view.valid(); view.next()) *)
(* to exhaustion without touching the World in the body.                   *)

\* the template argument lists the client instantiates new_view with
ViewTypeLists == {<<"A">>, <<"A", "B">>}

\* every list of one or two distinct component types
TypeLists == {<<"A">>, <<"B">>, <<"A", "B">>, <<"B", "A">>}

OpenView ==
    /\ Alive
    /\ Idle
    /\ \E Ts \in ViewTypeLists : DoNewView(1, Ts)
    /\ UNCHANGED <<pc, loop>>

ViewValid ==
    /\ Alive
    /\ views[1].state = "check"
    /\ DoValid(1)
    /\ UNCHANGED <<pc, loop>>

ViewNext ==
    /\ Alive
    /\ views[1].state = "body"
    /\ DoNext(1)
    /\ UNCHANGED <<pc, loop>>

InitView ==
    /\ InitCommon
    /\ pc = "view"
    /\ loop = NoLoop

NextView ==
    \/ NewEntity
    \/ Add
    \/ Remove
    \/ OpenView
    \/ ViewValid
    \/ ViewNext

SpecView == InitView /\ [][NextView]_vars

-----------------------------------------------------------------------------
(* SpecLoop: the client creates n entities with an A and a B each, opens a *)
(* view over (A, B) and, in the body of the loop, creates one more entity  *)
(* and gives it an A and a B.                                              *)

At_pc(l) == Alive /\ pc = l

LoopChoose ==
    /\ At_pc("start")
    /\ \E n \in 0..MaxLoopN : loop' = [loop EXCEPT !.n = n]
    /\ pc' = "setup"
    /\ UNCHANGED <<heap, world, type_ids, views, failure, issued, gone, freed, comp,
                   hook_log, adds>>

\* setup: auto e = world.new_entity();
SetupNew ==
    /\ At_pc("setup")
    /\ loop.i < loop.n
    /\ \E r \in {new_entity(Cur)} :
          /\ Commit(r.s)
          /\ issued' = issued \cup {r.e}
          /\ freed' = Without(freed, get_entity_id(r.e))
          /\ loop' = [loop EXCEPT !.e = r.e]
    /\ pc' = "setup_a"
    /\ UNCHANGED <<views, gone, comp, adds>>

\* setup: e.add<A>(...);
SetupAddA ==
    /\ At_pc("setup_a")
    /\ DoAdd(Entity(loop.e), "A", Fixed("A"))
    /\ pc' = "setup_b"
    /\ UNCHANGED loop

\* setup: e.add<B>(...);
SetupAddB ==
    /\ At_pc("setup_b")
    /\ DoAdd(Entity(loop.e), "B", Fixed("B"))
    /\ pc' = "setup"
    /\ loop' = [loop EXCEPT !.i = @ + 1]

\* auto view = world.new_view<A, B>()
LoopOpen ==
    /\ At_pc("setup")
    /\ loop.i = loop.n
    /\ DoNewView(1, <<"A", "B">>)
    /\ pc' = "check"
    /\ UNCHANGED loop

\* view.valid()
LoopValid ==
    /\ At_pc("check")
    /\ DoValid(1)
    /\ pc' = IF views'[1].state = "body" THEN "body" ELSE "done"
    /\ UNCHANGED loop

\* body: auto e = world.new_entity();
LoopNew ==
    /\ At_pc("body")
    /\ \E r \in {new_entity(Cur)} :
          /\ Commit(r.s)
          /\ issued' = issued \cup {r.e}
          /\ freed' = Without(freed, get_entity_id(r.e))
          /\ loop' = [loop EXCEPT !.e = r.e]
    /\ views' = Dirty(views)
    /\ pc' = "body_a"
    /\ UNCHANGED <<gone, comp, adds>>

\* body: e.add<A>(...);
LoopAddA ==
    /\ At_pc("body_a")
    /\ DoAdd(Entity(loop.e), "A", Fixed("A"))
    /\ pc' = "body_b"
    /\ UNCHANGED loop

\* body: e.add<B>(...);
LoopAddB ==
    /\ At_pc("body_b")
    /\ DoAdd(Entity(loop.e), "B", Fixed("B"))
    /\ pc' = "next"
    /\ UNCHANGED loop

\* view.next()
LoopNext ==
    /\ At_pc("next")
    /\ DoNext(1)
    /\ pc' = "check"
    /\ UNCHANGED loop

InitLoop ==
    /\ InitCommon
    /\ pc = "start"
    /\ loop = NoLoop

NextLoop ==
    \/ LoopChoose
    \/ SetupNew
    \/ SetupAddA
    \/ SetupAddB
    \/ LoopOpen
    \/ LoopValid
    \/ LoopNew
    \/ LoopAddA
    \/ LoopAddB
    \/ LoopNext

SpecLoop == InitLoop /\ [][NextLoop]_vars

(* SpecCur: the client of SpecView, whose loop body may destroy the       *)
(* entity the view has just yielded or remove one of its components of     *)
(* the view's types, and changes nothing else while the view is open.      *)

\* body: view.get_entity().destroy();
CurDestroy ==
    /\ Alive
    /\ views[1].state = "body"
    /\ View_get_entity(views[1].v).handle \in issued \ gone
    /\ DoDestroy(View_get_entity(views[1].v))
    /\ UNCHANGED <<pc, loop>>

\* body: view.get_entity().remove<T>(); for a type T of the view
CurRemove ==
    /\ Alive
    /\ views[1].state = "body"
    /\ \E T \in Range(views[1].types) :
          /\ Attached(View_get_entity(views[1].v), T)
          /\ DoRemove(View_get_entity(views[1].v), T)
    /\ UNCHANGED <<pc, loop>>

InitCur ==
    /\ InitCommon
    /\ pc = "cur"
    /\ loop = NoLoop

NextCur ==
    \/ NewEntity
    \/ Add
    \/ OpenView
    \/ ViewValid
    \/ ViewNext
    \/ CurDestroy
    \/ CurRemove

SpecCur == InitCur /\ [][NextCur]_vars

(* SpecRef: the loop of SpecLoop for n just below and at the pools' first  *)
(* capacity, so that an add of the body reallocates data while the view is *)
(* open.  At the end of a body the client may assign through get<T>() to   *)
(* the entity the view is at or to the entity the body has created.        *)

\* body: view.get_entity().get<T>() = c, or e.get<T>() = c for the entity the
\* body has created
LoopWrite ==
    /\ At_pc("next")
    /\ Cardinality({x \in DOMAIN comp : comp[x] # Fixed(x[2])}) < MaxRefWrites
    /\ \E e \in {View_get_entity(views[1].v), Entity(loop.e)}, T \in Types :
          /\ Attached(e, T)
          /\ \E c \in Payloads(T) \ {comp[<<e.handle, T>>]} : DoWrite(e, T, c)
    /\ UNCHANGED <<pc, loop>>

InitRef ==
    /\ InitCommon
    /\ pc = "setup"
    /\ \E n \in (MaxRefN - 1)..MaxRefN : loop = [NoLoop EXCEPT !.n = n]

NextRef ==
    \/ SetupNew
    \/ SetupAddA
    \/ SetupAddB
    \/ LoopOpen
    \/ LoopValid
    \/ LoopNew
    \/ LoopAddA
    \/ LoopAddB
    \/ LoopWrite
    \/ LoopNext

SpecRef == InitRef /\ [][NextRef]_vars

(* SpecAny: the loop of SpecLoop over n entities, where each body first    *)
(* destroys any entities and removes any components it likes, and then, as *)
(* the body of SpecLoop, creates an entity and gives it an A and a B.       *)

\* body: x.destroy(), for any live entity x
AnyDestroy ==
    /\ At_pc("body")
    /\ Cardinality(gone) < MaxAnyDestroys
    /\ \E e \in Held : DoDestroy(e)
    /\ UNCHANGED <<pc, loop>>

\* body: x.remove<T>(), for any live entity x that has a T
AnyRemove ==
    /\ At_pc("body")
    /\ Cardinality(((issued \ gone) \X Types) \ DOMAIN comp) < MaxAnyRemoves
    /\ \E e \in Held, T \in Types :
          /\ Attached(e, T)
          /\ DoRemove(e, T)
    /\ UNCHANGED <<pc, loop>>

InitAny ==
    /\ InitCommon
    /\ pc = "setup"
    /\ \E n \in 1..MaxAnyN : loop = [NoLoop EXCEPT !.n = n]

NextAny ==
    \/ SetupNew
    \/ SetupAddA
    \/ SetupAddB
    \/ LoopOpen
    \/ LoopValid
    \/ AnyDestroy
    \/ AnyRemove
    \/ LoopNew
    \/ LoopAddA
    \/ LoopAddB
    \/ LoopNext

SpecAny == InitAny /\ [][NextAny]_vars

(* SpecGC: the setup of SpecLoop (n entities, each with an A and a B),     *)
(* then the components of some entities are removed, oldest entity first,  *)
(* and collect_garbage() is called: with no view open, or at the end of    *)
(* the first iteration of the loop of SpecLoop, when frees are pending.    *)

\* e.remove<A>(); for the oldest entity that still has its components
GcRemoveA ==
    /\ At_pc("setup")
    /\ loop.i = loop.n
    /\ \E h \in issued :
          /\ Attached(Entity(h), "A")
          /\ \A g \in issued : Attached(Entity(g), "A") => get_entity_id(h) <= get_entity_id(g)
          /\ DoRemove(Entity(h), "A")
          /\ loop' = [loop EXCEPT !.e = h]
    /\ pc' = "remove_b"

\* e.remove<B>();
GcRemoveB ==
    /\ At_pc("remove_b")
    /\ DoRemove(Entity(loop.e), "B")
    /\ pc' = "setup"
    /\ UNCHANGED loop

\* world.collect_garbage();
GcCollect ==
    /\ \/ At_pc("setup") /\ loop.i = loop.n
       \/ At_pc("next")
    /\ DoCollectGarbage
    /\ pc' = "collected"
    /\ UNCHANGED loop

NextGC ==
    \/ LoopChoose
    \/ SetupNew
    \/ SetupAddA
    \/ SetupAddB
    \/ GcRemoveA
    \/ GcRemoveB
    \/ GcCollect
    \/ LoopOpen
    \/ LoopValid
    \/ LoopNew
    \/ LoopAddA
    \/ LoopAddB

SpecGC == InitLoop /\ [][NextGC]_vars

-----------------------------------------------------------------------------
(* SpecNest: two views, opened and advanced in any interleaving (nested as *)
(* in the demo's update loop, or overlapping).  The bodies create entities *)
(* and add components.  A view that has returned false from valid() may be *)
(* asked valid() again; it is then marked "spent".                         *)

\* view k is open: constructed, and valid() has not yet returned false
Open(k) == views[k].state \in {"check", "body"}

NestOpen ==
    /\ Alive
    /\ \E k \in ViewIds, Ts \in ViewTypeLists :
          /\ views[k].state = "none"
          /\ DoNewView(k, Ts)
    /\ UNCHANGED <<pc, loop>>

NestValid ==
    /\ Alive
    /\ \E k \in ViewIds :
          /\ views[k].state = "check"
          /\ DoValid(k)
    /\ UNCHANGED <<pc, loop>>

NestNext ==
    /\ Alive
    /\ \E k \in ViewIds :
          /\ views[k].state = "body"
          /\ DoNext(k)
    /\ UNCHANGED <<pc, loop>>

\* world.new_entity() in the body of a loop
NestBodyNew ==
    /\ Alive
    /\ \E k \in ViewIds : views[k].state = "body"
    /\ world.entity_count < EntityLimit
    /\ DoNewEntity
    /\ UNCHANGED <<pc, loop>>

\* e.add<T>(...) in the body of a loop
NestBodyAdd ==
    /\ Alive
    /\ \E k \in ViewIds : views[k].state = "body"
    /\ adds < AddLimit
    /\ \E e \in Held, T \in Types :
          /\ ~Attached(e, T)
          /\ DoAdd(e, T, Fixed(T))
    /\ UNCHANGED <<pc, loop>>

\* view.valid() once more, on a view whose valid() has already returned false
NestValidAgain ==
    /\ Alive
    /\ \E k \in ViewIds :
          /\ views[k].state \in {"done", "spent"}
          /\ world.iteration_depth > -2
          /\ \E r \in {View_valid(Cur, views[k].v)} :
                /\ Commit(r.s)
                /\ views' = [views EXCEPT ![k].state = "spent"]
    /\ UNCHANGED <<issued, gone, freed, comp, adds, pc, loop>>

InitNest ==
    /\ InitCommon
    /\ pc = "nest"
    /\ loop = NoLoop

NextNest ==
    \/ NewEntity
    \/ Add
    \/ NestOpen
    \/ NestValid
    \/ NestNext
    \/ NestBodyNew
    \/ NestBodyAdd
    \/ NestValidAgain

SpecNest == InitNest /\ [][NextNest]_vars

-----------------------------------------------------------------------------
(* SpecFull: a client with nine component types.  Eight of them have been  *)
(* referenced before the run starts, so the pool array is full             *)
(* (pool_count = pool_capacity = 8); the ninth is first referenced in a     *)
(* loop body, which makes get_pool reallocate the array while the view is   *)
(* open.  The bodies also create entities, add components and remove       *)
(* components of any entity.                                                *)

\* the component types referenced before the run, in order of first reference
EarlyTypes == <<"A", "B", "T3", "T4", "T5", "T6", "T7", "T8">>

\* the type first referenced in a loop body
LateType == "T9"

RECURSIVE Referenced(_, _)
\* the World after get_pool<T>() has run for each T of Ts in turn
Referenced(s, Ts) ==
    IF Ts = <<>> THEN s ELSE Referenced(get_pool(s, Head(Ts)).s, Tail(Ts))

\* body: world.set_create_func<T9>(f), the first reference to T9
RefType ==
    /\ Alive
    /\ views[1].state = "body"
    /\ LateType \notin Range(type_ids)
    /\ Commit(set_create_func(Cur, LateType, "f"))
    /\ UNCHANGED <<views, issued, gone, freed, comp, adds, pc, loop>>

\* body: x.remove<T>(), for any live entity x that has a T
BodyRemove ==
    /\ Alive
    /\ views[1].state = "body"
    /\ \E e \in Held, T \in Types :
          /\ Attached(e, T)
          /\ DoRemove(e, T)
    /\ UNCHANGED <<pc, loop>>

InitFull ==
    \E s0 \in {Referenced([heap |-> <<>>, w |-> InitWorld, ids |-> <<>>, fail |-> "none",
                            hooks |-> <<>>], EarlyTypes)} :
       /\ heap = s0.heap
       /\ world = s0.w
       /\ type_ids = s0.ids
       /\ views = [k \in ViewIds |-> NoView]
       /\ failure = "none"
       /\ issued = {}
       /\ gone = {}
       /\ freed = <<>>
       /\ comp = <<>>
       /\ hook_log = <<>>
       /\ adds = 0
       /\ pc = "full"
       /\ loop = NoLoop

NextFull ==
    \/ NewEntity
    \/ Add
    \/ OpenView
    \/ ViewValid
    \/ ViewNext
    \/ NestBodyNew
    \/ NestBodyAdd
    \/ RefType
    \/ BodyRemove

SpecFull == InitFull /\ [][NextFull]_vars

-----------------------------------------------------------------------------
(* What the client observes through the public interface. *)

\* e.valid()
Valid(h) == Entity_valid(Cur, Entity(h))

\* e.has<T>() in state s
HasIn(s, h, T) == Entity_has(s, Entity(h), T).r

\* the value of e.get<T>() in state s
GetIn(s, h, T) ==
    Bind(Entity_get(s, Entity(h), T), LAMBDA g : ReadPayload(g.s, g.ref, SizeOf(T)))

\* the slots of the identity table
Slots == 0..(world.entity_count - 1)

-----------------------------------------------------------------------------
(* C1: every entity created and not yet destroyed is live: the identity    *)
(* table entry at its slot is its handle, World.at(slot) is that entity    *)
(* and valid() is true, after any sequence of new_entity, destroy, add     *)
(* and remove.                                                             *)
C1_LiveEntitiesValid ==
    \A h \in issued \ gone :
        /\ At(Cur, world.entities, get_entity_id(h)) = h
        /\ World_at(Cur, get_entity_id(h)) = Entity(h)
        /\ Valid(h)

\* a live handle of a recycled slot, beside a freed slot and an attached component
C1_Witness ==
    /\ \E h \in issued \ gone : get_entity_version(h) >= 1
    /\ world.avail_id # null_entity_id
    /\ DOMAIN comp # {}

C3_CountIsValidSlots ==
    /\ count(Cur) = Cardinality({i \in Slots : Entity_valid(Cur, World_at(Cur, i))})
    /\ \A n \in {new_entity(Cur)} :
          count(Entity_destroy(n.s, Entity(n.e))) = count(Cur)

\* the table holds a live entity and two free-list nodes
C3_Witness ==
    /\ count(Cur) >= 1
    /\ Cardinality({i \in Slots : ~Entity_valid(Cur, World_at(Cur, i))}) >= 1
    /\ Cardinality(gone) >= 2

\* the pools of the World
PoolPtrs == {PoolPtr(world.pools, i) : i \in 0..(world.pool_count - 1)}

(* C4: in every pool, after any admissible sequence of add, remove and     *)
(* destroy, sparse and dense are mutually inverse on the live prefix:      *)
(* sparse[slot(dense[i])] = i for every i below the pool's count, and for  *)
(* every entity e the pool has, sparse[slot(e)] lies below the count and   *)
(* dense[sparse[slot(e)]] = e.                                             *)
C4_SparseDenseInverse ==
    \A ptr \in PoolPtrs : \A p \in {Pool(Cur, ptr)} :
        /\ p.dense_count = p.count
        /\ \A i \in 0..(p.dense_count - 1) : \A d \in {At(Cur, p.dense, i)} :
              /\ get_entity_id(d) >= 0
              /\ get_entity_id(d) < p.sparse_capacity
              /\ At(Cur, p.sparse, get_entity_id(d)) = i
        /\ \A h \in Live : Pool_has(Cur, ptr, h) =>
              /\ Pool_sparse_idx(Cur, ptr, h) \in 0..(p.dense_count - 1)
              /\ At(Cur, p.dense, Pool_sparse_idx(Cur, ptr, h)) = h

\* a pool whose first entity was removed and whose last one took its place,
\* after sparse had grown
C4_Witness ==
    \E ptr \in PoolPtrs : \E p \in {Pool(Cur, ptr)} :
        /\ p.dense_count = 1
        /\ p.sparse_capacity >= 2
        /\ At(Cur, p.sparse, 0) = -1
        /\ get_entity_id(At(Cur, p.dense, 0)) = 1

(* C5: a component added to a valid entity is there and reads back as the  *)
(* value last written to it (by add, or later through get) until it is     *)
(* removed, whatever was added to or removed from other entities since.    *)
C5_AddGetRoundTrip ==
    \A x \in DOMAIN comp :
        /\ Valid(x[1])
        /\ HasIn(Cur, x[1], x[2])
        /\ GetIn(Cur, x[1], x[2]) = comp[x]

\* two entities hold different payloads of the same two-byte type, the
\* second recycled from a destroyed one
C5_Witness ==
    \E g \in Live, h \in Live :
        /\ <<g, "B">> \in DOMAIN comp
        /\ <<h, "B">> \in DOMAIN comp
        /\ comp[<<g, "B">>] # comp[<<h, "B">>]
        /\ gone # {}

(* C6: after remove of T from an entity that has it, that entity no longer *)
(* has T, and every other entity that had T still has it with the payload  *)
(* it had before, the one moved from the last dense position included.     *)
C6_RemoveKeepsOthers ==
    \A h \in Live, T \in Types : HasIn(Cur, h, T) =>
        \A r \in {Entity_remove(Cur, Entity(h), T)} :
            /\ r.fail = "none"
            /\ ~HasIn(r, h, T)
            /\ \A g \in Live \ {h} : HasIn(Cur, g, T) =>
                  /\ HasIn(r, g, T)
                  /\ GetIn(r, g, T) = GetIn(Cur, g, T)

\* the two-byte pool after such a remove: the entity that was last now sits at
\* position 0, where its payload was moved
C6_Witness ==
    \E ptr \in PoolPtrs : \E p \in {Pool(Cur, ptr)} :
        /\ p.element_size = 2
        /\ p.count = 1
        /\ p.capacity >= 2
        /\ At(Cur, p.dense, 1) = At(Cur, p.dense, 0)
        /\ ReadPayload(Cur, Pool_get_by_idx(Cur, ptr, 1), 2)
              = ReadPayload(Cur, Pool_get_by_idx(Cur, ptr, 0), 2)

\* type T has a pool in the World
HasPool(T) ==
    /\ IndexOf(type_ids, T, 1) # 0
    /\ FindPool(Cur, IndexOf(type_ids, T, 1) - 1, 0, world.pool_count) # -1

(* C7: when nothing touches the World between new_view<T1..Tk>() and       *)
(* exhaustion, the valid()/get_entity()/next() loop yields exactly the     *)
(* entities present in all k pools, each once, in descending dense index   *)
(* of the driver pool (a pool of least count); with an empty pool among    *)
(* them it yields nothing.                                                 *)
C7_ViewYieldsIntersection ==
    \A k \in ViewIds : \A w \in {views[k]} : (w.state = "done" /\ w.clean) =>
        /\ Range(w.yielded) = Matching(w.types)
        /\ Len(w.yielded) = Cardinality(Matching(w.types))
        /\ w.yielded # <<>> =>
              /\ \A i \in 1..Len(w.types) : \A q \in PoolPtrs :
                    TypeOfId(Cur, Pool(Cur, q).id) = w.types[i] =>
                        Pool(Cur, w.v.pool).count <= Pool(Cur, q).count
              /\ \A i \in 1..Len(w.yielded), j \in 1..Len(w.yielded) : i < j =>
                    Pool_sparse_idx(Cur, w.v.pool, w.yielded[i])
                        > Pool_sparse_idx(Cur, w.v.pool, w.yielded[j])
        /\ (\E i \in 1..Len(w.types) : \A h \in Live : <<h, w.types[i]>> \notin DOMAIN comp)
              => w.yielded = <<>>

\* an exhausted view over two types whose driver pool holds two entities: the
\* last of them was passed over, the other one yielded
C7_Witness ==
    /\ views[1].state = "done"
    /\ Len(views[1].types) = 2
    /\ Len(views[1].yielded) = 1
    /\ Pool(Cur, views[1].v.pool).count = 2
    /\ At(Cur, Pool(Cur, views[1].v.pool).dense, 1) # views[1].yielded[1]
    /\ At(Cur, Pool(Cur, views[1].v.pool).dense, 0) = views[1].yielded[1]

(* C8: a view over a type list naming a type the World has no pool for:    *)
(* its first valid() is false, the World's pools are what they were (no    *)
(* pool was made for the type), and after that valid() iteration_depth is  *)
(* back at its value from before new_view.                                 *)
C8_MissingPoolView ==
    \A Ts \in TypeLists : (\E i \in 1..Len(Ts) : ~HasPool(Ts[i])) =>
        \A r \in {new_view(Cur, Ts)} : \A q \in {View_valid(r.s, r.v)} :
            /\ ~q.r
            /\ q.s.w.pool_count = world.pool_count
            /\ q.s.w.pools = world.pools
            /\ q.s.w.pool_capacity = world.pool_capacity
            /\ q.s.heap = heap
            /\ q.s.w.iteration_depth = world.iteration_depth
            /\ q.s.fail = "none"

\* the client opened a view over two types, one of them without a pool, and
\* its valid() has returned false
C8_Witness ==
    /\ views[1].state = "done"
    /\ Len(views[1].types) = 2
    /\ world.pool_count = 1
    /\ \E i \in 1..2 : ~HasPool(views[1].types[i])
    /\ views[1].yielded = <<>>
    /\ world.iteration_depth = views[1].depth0

(* C9: while a view is open (iteration_depth > 0 before and after the      *)
(* call), no call of new_entity, add, remove, destroy, has, get or of a    *)
(* hook registration de-allocates a buffer: what was allocated before the  *)
(* call is allocated after it.                                             *)
C9_NoFreeWhileIterating ==
    [][(world.iteration_depth > 0 /\ world'.iteration_depth > 0)
          => \A a \in DOMAIN heap : a \in DOMAIN heap']_vars

(* C10: the loop over a view of (A, B) with n matching entities, whose     *)
(* body gives an A and a B to a new entity, ends after exactly n visits    *)
(* and no assertion fails, for every n.                                    *)
C10_LoopCompletes ==
    /\ failure = "none"
    /\ pc = "done" => Len(views[1].yielded) = loop.n

(* C11: when the body of the loop only adds components (to new or to       *)
(* existing entities), the view never yields an entity that entered the    *)
(* driver pool after new_view, never yields an entity twice, and by the    *)
(* end of the run has yielded every entity that matched at new_view.       *)
C11_AddOnlyView ==
    \A k \in ViewIds : \A w \in {views[k]} : w.state # "none" =>
        /\ Range(w.yielded) \subseteq w.driver0
        /\ Len(w.yielded) = Cardinality(Range(w.yielded))
        /\ (w.state = "done" \/ failure # "none") => w.matched0 \subseteq Range(w.yielded)

(* C12: iteration_depth is the number of open views (constructed, valid()  *)
(* not yet false) and never negative; valid() on a view that is already    *)
(* exhausted leaves it unchanged.                                          *)
C12_DepthCountsOpenViews ==
    /\ world.iteration_depth = Cardinality({k \in ViewIds : Open(k)})
    /\ world.iteration_depth >= 0

\* every view has been used by the for-loop protocol so far
Protocol == \A k \in ViewIds : views[k].state # "spent"

\* this step is the valid() call that found view k exhausted
Exhausts(k) == views[k].state = "check" /\ views'[k].state = "done"

(* C13: with nested or overlapping views used by the for-loop protocol,    *)
(* deferred frees are committed only by the valid() that returns           *)
(* iteration_depth to zero: a buffered pointer stays allocated, a valid()  *)
(* that exhausts a view while another is open frees nothing, the buffer    *)
(* shrinks in no other step, and with no view open the buffer is empty.    *)
C13_CommitAtDepthZero ==
    /\ [](Protocol =>
            /\ \A i \in DOMAIN world.delete_buffer :
                  world.delete_buffer[i].ptr \in DOMAIN heap
            /\ (\A k \in ViewIds : ~Open(k)) => world.delete_buffer = <<>>)
    /\ [][Protocol' =>
            /\ \A k \in ViewIds : (Exhausts(k) /\ \E j \in ViewIds : Open(j)')
                  => /\ world'.delete_buffer = world.delete_buffer
                     /\ DOMAIN heap' = DOMAIN heap
            /\ Len(world'.delete_buffer) < Len(world.delete_buffer)
                  => /\ world'.iteration_depth = 0
                     /\ \E k \in ViewIds : Exhausts(k)]_vars

\* the view opened first is exhausted while the one opened inside it is still
\* open and a replaced buffer awaits its delete[]
C13_Witness ==
    /\ Protocol
    /\ views[1].state = "done"
    /\ views[1].depth0 = 0
    /\ Open(2)
    /\ views[2].depth0 = 1
    /\ world.delete_buffer # <<>>

(* C14: slot recycling is LIFO: while a destroyed slot awaits reuse,       *)
(* new_entity() returns the slot destroyed most recently among those not   *)
(* yet reused; a fresh slot (index entity_count, version 0) is appended    *)
(* only when no such slot exists.                                          *)
C14_RecycleLIFO ==
    \A n \in {new_entity(Cur)} :
        /\ (freed = <<>>) <=> (world.avail_id = null_entity_id)
        /\ freed # <<>> =>
              /\ get_entity_id(n.e) = freed[Len(freed)]
              /\ n.s.w.entity_count = world.entity_count
        /\ freed = <<>> =>
              /\ n.e = make_handle(world.entity_count, 0)
              /\ n.s.w.entity_count = world.entity_count + 1

\* two slots await reuse, destroyed in the order 1, 0, after slot 0 had already
\* been reused once
C14_Witness ==
    /\ freed = <<1, 0>>
    /\ \E h \in gone : get_entity_id(h) = 0 /\ get_entity_version(h) = 1

(* C15: the handle issued for a recycled slot carries exactly the version  *)
(* of the handle destroyed in that slot plus one, in 32-bit wrapping       *)
(* arithmetic; so the version of a live handle is the number of times its  *)
(* slot has been destroyed, modulo 2^32.                                   *)
C15_VersionCountsDestroys ==
    LET \* v + n on 32 bits, in two's-complement writing, for 0 <= n < 2^31
        plus(v, n) == IF v > 2147483647 - n
                      THEN (((v - 2147483647) - 1) + n) + ((-2147483647) - 1)
                      ELSE v + n
        before(id) == IF id = 0 THEN loop.n ELSE 0
        destroyed(id) == Cardinality({g \in gone : get_entity_id(g) = id})
    IN /\ \A h \in issued \ gone :
             get_entity_version(h) =
                plus(before(get_entity_id(h)), destroyed(get_entity_id(h)))
       /\ \A h \in issued :
             \/ get_entity_version(h) = before(get_entity_id(h))
             \/ \E g \in gone :
                   /\ get_entity_id(g) = get_entity_id(h)
                   /\ get_entity_version(h) = plus(get_entity_version(g), 1)
       /\ \A g \in gone :
             \/ get_entity_id(g) \in Range(freed)
             \/ \E h \in issued :
                   /\ get_entity_id(h) = get_entity_id(g)
                   /\ get_entity_version(h) = plus(get_entity_version(g), 1)

\* the handle of version UINT32_MAX was destroyed and its slot lives again at
\* version 0, then 1
C15_Witness ==
    /\ loop.n = -1
    /\ {make_handle(0, -1), make_handle(0, 0)} \subseteq gone
    /\ make_handle(0, 1) \in issued \ gone

(* C16: collect_garbage() called with no view open preserves the contents  *)
(* of pools of any element size: every entity that had a component before  *)
(* the call still answers has true, and get returns its original payload,  *)
(* whether or not the pool was shrunk.                                     *)
C16_CollectKeepsContents ==
    (pc = "collected" /\ Idle) =>
        /\ failure = "none"
        /\ \A k \in DOMAIN comp :
              /\ HasIn(Cur, k[1], k[2])
              /\ GetIn(Cur, k[1], k[2]) = comp[k]

\* the pool of T exists and its on_create / on_destroy function is set
Hooked(which, T) ==
    /\ HasPool(T)
    /\ \E p \in {Pool(Cur, get_pool(Cur, T).p)} :
          IF which = "create" THEN p.on_create # "none" ELSE p.on_destroy # "none"

(* C17: the on_create function of type T is called exactly once in each    *)
(* successful add<T>(v), after the payload has been stored: inside the     *)
(* function the entity is valid, has<T>() is true and get<T>() is v; it is *)
(* called in no other operation.                                           *)
C17_CreateHookAfterStore ==
    [][/\ (adds' = adds + 1 /\ failure' = "none") =>
             \A k \in DOMAIN comp' \ DOMAIN comp :
                hook_log' = IF Hooked("create", k[2])
                            THEN <<[hook |-> "create", type |-> k[2], e |-> k[1],
                                    valid |-> TRUE, has |-> TRUE, value |-> comp'[k]]>>
                            ELSE <<>>
       /\ adds' = adds =>
             \A i \in DOMAIN hook_log' : hook_log'[i].hook # "create"]_vars

\* the on_create function of B has just seen the payload <<1, 2>> of an add
C17_Witness ==
    /\ failure = "none"
    /\ \E h \in issued \ gone :
          /\ hook_log = <<[hook |-> "create", type |-> "B", e |-> h,
                           valid |-> TRUE, has |-> TRUE, value |-> <<1, 2>>]>>
          /\ <<h, "B">> \in DOMAIN comp
          /\ comp[<<h, "B">>] = <<1, 2>>

(* C18: the on_destroy function of type T is called exactly once for each  *)
(* component of type T removed by remove<T>() or by destroy(), before the  *)
(* swap-and-pop and before the slot is released: inside the function the   *)
(* entity is valid, has<T>() is true and get<T>() is the last value        *)
(* written; it is called in no other operation.                            *)
C18_DestroyHookBeforeRemoval ==
    [][\A lost \in {{k \in DOMAIN comp \ DOMAIN comp' : Hooked("destroy", k[2])}} :
          /\ Cardinality({i \in DOMAIN hook_log' : hook_log'[i].hook = "destroy"}) =
                Cardinality(lost)
          /\ \A k \in lost : \E i \in DOMAIN hook_log' :
                hook_log'[i] = [hook |-> "destroy", type |-> k[2], e |-> k[1],
                                valid |-> TRUE, has |-> TRUE, value |-> comp[k]]
          /\ \A i \in DOMAIN hook_log' :
                hook_log'[i].hook = "destroy" => <<hook_log'[i].e, hook_log'[i].type>> \in lost]_vars

\* destroy() has just removed an A and a B, and both on_destroy functions ran
C18_Witness ==
    /\ failure = "none"
    /\ Len(hook_log) = 2
    /\ \E g \in gone : \A i \in DOMAIN hook_log :
          /\ hook_log[i].hook = "destroy"
          /\ hook_log[i].e = g
          /\ hook_log[i].value = Fixed(hook_log[i].type)
    /\ hook_log[1].type # hook_log[2].type

(* C19: destroy(), has<T>(), add<T>(), get<T>() and remove<T>() through a  *)
(* handle that fails valid() (the null entity, a destroyed handle, the     *)
(* stale handle of a recycled slot, a handle out of range) end in the      *)
(* invalid-entity assertion before any change to the identity table, the   *)
(* free list, alive_count or any pool; a second destroy() of a handle does *)
(* not push its slot onto the free list again.                             *)
C19_InvalidHandleRefused ==
    /\ [](Alive =>
            \A refused \in {[Cur EXCEPT !.fail = "Invalid entity."]} :
            \A e \in {NullEntity} \cup
                     {Entity(make_handle(id, v)) : id \in (-1)..world.entity_count,
                                                   v \in (-1)..(Cardinality(gone) + 1)} :
               ~Entity_valid(Cur, e) =>
                  /\ Entity_destroy(Cur, e) = refused
                  /\ \A T \in Types :
                        /\ Entity_has(Cur, e, T).s = refused
                        /\ Entity_get(Cur, e, T).s = refused
                        /\ Entity_remove(Cur, e, T) = refused
                        /\ \A c \in Payloads(T) : Entity_add(Cur, e, T, c).s = refused)
    /\ [][failure' = "Invalid entity." =>
             UNCHANGED <<heap, world, type_ids, issued, gone, freed, comp>>]_vars

\* an operation through the stale handle of a slot that lives again was refused
C19_Witness ==
    /\ failure = "Invalid entity."
    /\ loop.e \in gone
    /\ \E h \in issued \ gone : get_entity_id(h) = get_entity_id(loop.e)

(* C20: add<T>(v) on a valid entity that already has a T ends in the       *)
(* duplicate-add assertion; it neither replaces the payload nor inserts a  *)
(* second dense entry for the entity.                                      *)
C20_DuplicateAddRefused ==
    /\ [](Alive =>
            \A k \in DOMAIN comp : \A c \in Payloads(k[2]) :
               Entity_add(Cur, Entity(k[1]), k[2], c).s =
                  [Cur EXCEPT !.fail = "Entity already has the specified component."])
    /\ [][failure' = "Entity already has the specified component." =>
             /\ UNCHANGED <<heap, world, type_ids, comp>>
             /\ \A k \in DOMAIN comp : GetIn(Cur, k[1], k[2]) = comp[k]]_vars

\* a second add<T>() on a live entity that has a T was refused
C20_Witness ==
    /\ failure = "Entity already has the specified component."
    /\ loop.e \in issued \ gone
    /\ \E T \in Types : <<loop.e, T>> \in DOMAIN comp

(* C21: get<T>() and remove<T>() on a valid entity that has no T end in    *)
(* the missing-component assertion, and the membership and the payloads of *)
(* every pool are what they were.                                          *)
C21_MissingComponentRefused ==
    /\ [](Alive =>
            \A h \in issued \ gone : \A T \in Types :
               <<h, T>> \notin DOMAIN comp =>
                  \A r \in {Entity_get(Cur, Entity(h), T).s, Entity_remove(Cur, Entity(h), T)} :
                     /\ r.fail = "Entity doesn't have the requested component."
                     /\ \A after \in {[r EXCEPT !.fail = "none"]} :
                        \A g \in issued \ gone : \A U \in Types :
                           /\ HasIn(after, g, U) = (<<g, U>> \in DOMAIN comp)
                           /\ <<g, U>> \in DOMAIN comp => GetIn(after, g, U) = comp[<<g, U>>])
    /\ [][failure' = "Entity doesn't have the requested component." =>
             UNCHANGED <<issued, gone, freed, comp>>]_vars

\* get or remove of a missing component was refused while another component
\* was attached to an entity
C21_Witness ==
    /\ failure = "Entity doesn't have the requested component."
    /\ loop.e \in issued \ gone
    /\ comp # <<>>

(* C22: the number of pending deferred frees never exceeds                 *)
(* max_delete_buffer = 64: the reallocation that would enqueue a 65th      *)
(* while a view is open ends in the deferred-queue-overflow assertion and  *)
(* enqueues nothing, and commit_deletions leaves the pending count zero.   *)
C22_DeferredQueueBounded ==
    /\ [](/\ Len(world.delete_buffer) <= max_delete_buffer
          /\ Alive => commit_deletions(Cur).w.delete_buffer = <<>>)
    /\ [][/\ failure' = "Deletion buffer too small." =>
                /\ world.iteration_depth > 0
                /\ Len(world'.delete_buffer) = max_delete_buffer
          /\ (Alive /\ Len(world.delete_buffer) = max_delete_buffer
                    /\ Len(world'.delete_buffer) # 0) =>
                world'.delete_buffer = world.delete_buffer
          /\ (world.iteration_depth > 0 /\ world'.iteration_depth = 0) =>
                world'.delete_buffer = <<>>]_vars

\* the 65th deferred free of an iteration was refused
C22_Witness ==
    /\ failure = "Deletion buffer too small."
    /\ Len(world.delete_buffer) = max_delete_buffer
    /\ world.iteration_depth > 0

(* C23: for a valid entity without a T, add<T>(v) followed by remove<T>()  *)
(* leaves has<T>() false and the membership of every pool and the payloads *)
(* of all other entities as they were before the add; a following          *)
(* add<T>(w) succeeds and get<T>() then returns w.                         *)
C23_AddRemoveRestores ==
    Alive =>
       \A h \in issued \ gone : \A T \in Types :
          <<h, T>> \notin DOMAIN comp =>
             \A v \in {Fixed(T)} :
             \A s2 \in {Entity_remove(Entity_add(Cur, Entity(h), T, v).s, Entity(h), T)} :
                /\ s2.fail = "none"
                /\ ~HasIn(s2, h, T)
                /\ \A k \in DOMAIN comp :
                      /\ HasIn(s2, k[1], k[2])
                      /\ GetIn(s2, k[1], k[2]) = comp[k]
                /\ \A g \in issued \ gone :
                      <<g, T>> \notin DOMAIN comp => ~HasIn(s2, g, T)
                /\ \A w \in Payloads(T) \ {v} :
                   \A s3 \in {Entity_add(s2, Entity(h), T, w).s} :
                      /\ s3.fail = "none"
                      /\ HasIn(s3, h, T)
                      /\ GetIn(s3, h, T) = w

\* an entity without a T next to an entity with a T, after a slot was recycled
C23_Witness ==
    /\ failure = "none"
    /\ gone # {}
    /\ \E g \in issued \ gone, h \in issued \ gone : \E T \in Types :
          /\ <<g, T>> \in DOMAIN comp
          /\ <<h, T>> \notin DOMAIN comp

(* C24: collect_garbage() first commits all pending deferred frees, then   *)
(* changes the data capacity of a pool exactly when n > 8 and              *)
(* capacity > 2 * n, setting it to n rounded up to the next multiple of 8; *)
(* every other pool keeps its capacity, and capacity >= n holds            *)
(* afterwards in all cases.                                                *)
C24_CollectShrinksByRule ==
    [][pc' = "collected" =>
          /\ failure' = "none"
          /\ world'.delete_buffer = <<>>
          /\ \A i \in DOMAIN world.delete_buffer :
                world.delete_buffer[i].ptr \notin DOMAIN heap'
          /\ world'.pool_count = world.pool_count
          /\ \A after \in {[heap |-> heap', w |-> world', ids |-> type_ids',
                            fail |-> failure', hooks |-> <<>>]} :
             \A i \in 0..(world.pool_count - 1) :
             \A p \in {Pool(Cur, PoolPtr(world.pools, i))} :
             \A q \in {Pool(after, PoolPtr(world'.pools, i))} :
                /\ q.count = p.count
                /\ q.capacity = IF p.count > 8 /\ p.capacity > 2 * p.count
                                THEN ((p.count + 7) \div 8) * 8
                                ELSE p.capacity
                /\ q.capacity >= q.count
                /\ Len(heap'[q.data]) = q.capacity * q.element_size
                /\ (q.capacity = p.capacity) => (q.data = p.data)]_vars

\* collect_garbage() was called in a loop body, after adds that deferred frees,
\* and shrank a pool of 15 components from capacity 32 to 16
C24_Witness ==
    /\ pc = "collected"
    /\ failure = "none"
    /\ world.iteration_depth > 0
    /\ Cardinality(DOMAIN comp) = 30
    /\ \A i \in 0..(world.pool_count - 1) :
          /\ Pool(Cur, PoolPtr(world.pools, i)).count = 15
          /\ Pool(Cur, PoolPtr(world.pools, i)).capacity = 16

(* C25: in every reachable state the free list that starts at avail_id is  *)
(* acyclic, ends at null_entity_id and contains exactly the slots below    *)
(* entity_count that are not live, each once; so entity_count is           *)
(* alive_count plus the length of the list, and every link leads to        *)
(* another free slot or to null_entity_id.                                 *)
C25_FreeListWellFormed ==
    LET RECURSIVE walk(_, _)
        \* the slots met from id on, following at most fuel links; -2 marks a
        \* link out of the table or a walk that did not end
        walk(id, fuel) ==
            IF id = null_entity_id THEN <<>>
            ELSE IF fuel = 0 \/ id \notin Slots THEN <<-2>>
            ELSE <<id>> \o walk(get_entity_id(At(Cur, world.entities, id)), fuel - 1)
        list == walk(world.avail_id, world.entity_count)
        live == {get_entity_id(h) : h \in issued \ gone}
    IN /\ \A i \in DOMAIN list : list[i] \in Slots
       /\ \A i \in DOMAIN list, j \in DOMAIN list : list[i] = list[j] => i = j
       /\ Range(list) = Slots \ live
       /\ world.entity_count = world.alive_count + Len(list)
       /\ \A i \in Range(list) :
             get_entity_id(At(Cur, world.entities, i)) \in Range(list) \cup {null_entity_id}
       /\ Cardinality(live) = world.alive_count

\* after the table grew to 16 handles: two slots are on the free list, one of
\* the first table and one of the grown part, and seven or more entities live
C25_Witness ==
    /\ world.entity_capacity = 16
    /\ Len(freed) = 2
    /\ freed[1] >= 8
    /\ freed[2] < 8
    /\ world.avail_id = freed[2]
    /\ get_entity_id(At(Cur, world.entities, freed[2])) = freed[1]
    /\ get_entity_id(At(Cur, world.entities, freed[1])) = null_entity_id
    /\ world.alive_count >= 7

(* C26: the growth of the identity table in generate_entity (capacity 8,   *)
(* then doubling) preserves every entry: each slot below entity_count      *)
(* holds after the growth what it held before, so live handles stay valid  *)
(* and the free list stays intact, after any number of growths.            *)
C26_TableGrowthPreserves ==
    /\ [](Alive => \A h \in issued \ gone : Valid(h))
    /\ [][world'.entity_capacity # world.entity_capacity =>
             /\ failure' = "none"
             /\ world'.entity_capacity = IF world.entity_capacity < 8 THEN 8
                                         ELSE 2 * world.entity_capacity
             /\ \A i \in Slots :
                   heap'[world'.entities][i + 1] = At(Cur, world.entities, i)
             /\ world'.avail_id = world.avail_id
             /\ world'.entity_count = world.entity_count + 1
             /\ heap'[world'.entities][world.entity_count + 1] =
                   make_handle(world.entity_count, 0)]_vars

\* after the growths to 16 and to 32 handles: slot 0 still holds the handle of
\* version 2^31 - 1 it held at the start, and slots destroyed since are linked
C26_Witness ==
    /\ world.entity_capacity = 32
    /\ loop.n = 2147483647
    /\ make_handle(0, 2147483647) \in issued \ gone
    /\ Valid(make_handle(0, 2147483647))
    /\ Len(freed) = 2
    /\ world.avail_id = freed[2]
    /\ get_entity_id(At(Cur, world.entities, freed[2])) = freed[1]

(* C27: if the only mutation during a view's iteration is destroying the   *)
(* entity currently yielded, or removing one of its components of the      *)
(* view's types, then every entity that matched at construction is yielded *)
(* exactly once: none is skipped and none is yielded twice.                *)
C27_RemovingCurrentKeepsOrder ==
    \A w \in {views[1]} : w.state # "none" =>
        /\ failure = "none"
        /\ Range(w.yielded) \subseteq w.matched0
        /\ Len(w.yielded) = Cardinality(Range(w.yielded))
        /\ w.state = "done" => Range(w.yielded) = w.matched0

\* a view over three matching entities has ended; its body destroyed two of them
\* and removed a component from the third
C27_Witness ==
    /\ views[1].state = "done"
    /\ Len(views[1].yielded) = 3
    /\ Cardinality(gone) = 2
    /\ ~views[1].clean
    /\ \E h \in issued \ gone : \A T \in Range(views[1].types) : <<h, T>> \notin DOMAIN comp

(* C28: new_view takes as driver the pool with the smallest count among    *)
(* the requested types at construction, the first in the caller's order on *)
(* ties, and starts the cursor at that pool's last dense index n - 1,      *)
(* advancing at once while the entity there is not in every pool.          *)
(* Stated of the view new_view would build in every state where no loop   *)
(* is running: before any view, and after a loop whose body removed        *)
(* entities.                                                                *)
C28_DriverIsFirstSmallest ==
    (Alive /\ \A k \in ViewIds : views[k].state \in {"none", "done"}) =>
       \A Ts \in TypeLists :
          (\A j \in DOMAIN Ts : HasPool(Ts[j])) =>
             \A ptr \in {[j \in DOMAIN Ts |-> get_pool(Cur, Ts[j]).p]} :
             \A n \in {[j \in DOMAIN Ts |-> Pool(Cur, ptr[j]).count]} :
             \A d \in {j \in DOMAIN Ts : /\ \A l \in DOMAIN Ts : n[j] <= n[l]
                                         /\ \A l \in 1..(j - 1) : n[l] > n[j]} :
             \A dense \in {[i \in 0..(n[d] - 1) |-> At(Cur, Pool(Cur, ptr[d]).dense, i)]} :
             \A hits \in {{i \in DOMAIN dense :
                             \A l \in DOMAIN Ts : <<dense[i], Ts[l]>> \in DOMAIN comp}} :
             \A v \in {new_view(Cur, Ts).v} :
                /\ v.pool = ptr[d]
                /\ hits = {} => v.entity = null_handle /\ v.idx = 0
                /\ hits # {} =>
                      /\ v.idx \in hits
                      /\ \A i \in hits : i <= v.idx
                      /\ v.entity = dense[v.idx]

\* the pools of A and B hold two entities each and the last entity of the pool
\* of B is not in the pool of A: new_view<B, A>() drives by B and starts below
\* its last index
C28_Witness ==
    /\ failure = "none"
    /\ Idle
    /\ HasPool("A")
    /\ HasPool("B")
    /\ Pool(Cur, get_pool(Cur, "A").p).count = 2
    /\ Pool(Cur, get_pool(Cur, "B").p).count = 2
    /\ \E v \in {new_view(Cur, <<"B", "A">>).v} :
          /\ v.pool = get_pool(Cur, "B").p
          /\ v.idx = 0
          /\ v.entity # null_handle

(* C29: after add has reallocated a pool's data while a view is open, the  *)
(* old buffer is not written again: every step taken while the depth stays *)
(* above zero leaves each deferred data buffer allocated with its cells    *)
(* unchanged; the step that reallocates leaves the old buffer allocated,   *)
(* defers it, and a reference taken before it still reads the payload the  *)
(* client last gave; and get<T>() never returns storage in a deferred      *)
(* buffer, so an assignment through it is not seen through the old one.    *)
C29_OldBufferReadOnly ==
    [][(failure = "none" /\ failure' = "none") =>
         /\ \A i \in DOMAIN world.delete_buffer :
               (world.delete_buffer[i].type = "U8" /\ world'.iteration_depth > 0) =>
                  /\ world.delete_buffer[i].ptr \in DOMAIN heap'
                  /\ heap'[world.delete_buffer[i].ptr] = heap[world.delete_buffer[i].ptr]
         /\ \A i \in 0..(world.pool_count - 1) :
               \A p \in {At(Cur, world.pools, i)}, q \in {At(Cur', world'.pools, i)} :
                  (world.iteration_depth > 0 /\ p.data # nullptr /\ q.data # p.data) =>
                     /\ p.data \in DOMAIN heap'
                     /\ heap'[p.data] = heap[p.data]
                     /\ \E j \in DOMAIN world'.delete_buffer :
                           world'.delete_buffer[j] = [type |-> "U8", ptr |-> p.data]
                     /\ \A e \in Held, T \in Types :
                           (Attached(e, T) /\ Entity_get(Cur, e, T).ref.buf = p.data) =>
                              ReadPayload(Cur', Entity_get(Cur, e, T).ref, SizeOf(T))
                                 = comp[<<e.handle, T>>]
         /\ \A e \in Held, T \in Types :
               Attached(e, T) =>
                  \A r \in {Entity_get(Cur, e, T).ref} :
                     /\ r.buf = Pool(Cur, get_pool(Cur, T).p).data
                     /\ \A j \in DOMAIN world.delete_buffer : world.delete_buffer[j].ptr # r.buf
    ]_vars

\* a view is open, the data of the pool of A has been reallocated by an add of
\* the body, and an entity's A assigned afterwards differs from the byte the
\* old buffer holds at the entity's place
C29_Witness ==
    /\ failure = "none"
    /\ world.iteration_depth > 0
    /\ \E i \in DOMAIN world.delete_buffer, e \in Held :
          /\ world.delete_buffer[i].type = "U8"
          /\ world.delete_buffer[i].ptr \in DOMAIN heap
          /\ Attached(e, "A")
          /\ \E r \in {Entity_get(Cur, e, "A").ref} :
                /\ world.delete_buffer[i].ptr[2] = r.buf[2]
                /\ r.off < Len(heap[world.delete_buffer[i].ptr])
                /\ ReadPayload(Cur, r, 1) = comp[<<e.handle, "A">>]
                /\ ReadPayload(Cur, [buf |-> world.delete_buffer[i].ptr, off |-> r.off], 1)
                      = Fixed("A")
                /\ comp[<<e.handle, "A">>] # Fixed("A")

(* C30: whatever the loop bodies do (new_entity, destroy, add and remove,  *)
(* on any entities), every handle a view yields is, when valid() returns   *)
(* true for it, a live entity that has every component type of the view.   *)
C30_YieldedAreLive ==
    [][\A k \in ViewIds :
          (views[k].state = "check" /\ views'[k].state = "body" /\ failure' = "none") =>
             /\ Entity_valid(Cur', View_get_entity(views'[k].v))
             /\ \A T \in Range(views'[k].types) : HasIn(Cur', views'[k].v.entity, T)
    ]_vars

(* C31: every entity new_entity() returns, from a fresh or from a recycled *)
(* slot, has no components: right after the call no pool has an entry for *)
(* its slot, whatever came before, destroy() calls whose on_destroy        *)
(* functions add or remove components of the destroyed entity included.   *)
C31_NewEntityIsBare ==
    [][\A h \in issued' \ issued :
          failure' = "none" =>
             \A i \in 0..(world'.pool_count - 1) :
                ~Pool_has(Cur', PoolPtr(world'.pools, i), h)
    ]_vars

(* C32: a view opened before get_pool reallocated the pool array keeps     *)
(* observing the pools' current state: an entity whose viewed component    *)
(* has been removed after the reallocation, before the cursor reaches it,  *)
(* is not yielded, so every entity such a view yields has each component   *)
(* type of the view.                                                       *)
C32_ViewSeesCurrentPools ==
    [][\A k \in ViewIds :
          (/\ views[k].state = "check"
           /\ views'[k].state = "body"
           /\ failure' = "none"
           /\ views[k].v.pool.base # world.pools) =>
             \A T \in Range(views[k].types) : HasIn(Cur', views'[k].v.entity, T)
    ]_vars

=============================================================================
